---- MODULE Spec2Model ----
(***************************************************************************)
(* DigiDoc document pipeline (apps/digidoc/ocr_service).                   *)
(*                                                                         *)
(*   - structural fingerprint comparison   matching/structural.py         *)
(*   - template matching                   tasks/matching_task.py         *)
(*   - the per-document orchestrator       tasks/document_tasks.py        *)
(*   - the RQ task-queue adapter           queue/rq_adapter.py            *)
(*                                                                         *)
(* Scores, confidences and ratios are Python floats in [0, 1]; here they   *)
(* are fixed-point integers in thousandths (One = 1.0).                    *)
(***************************************************************************)
EXTENDS Integers, Sequences, FiniteSets, TLC

VARIABLES
    templates,        \* rows of the cached_templates table, in query order
    matchCall,        \* the last stand-alone call of match_template and what it returned
    pc,               \* position of the process_document_task run
    args,             \* its arguments (file_path, queue_item_id, calling_app_id)
    config,           \* what get_config() returned
    skeleton_config,  \* what _load_skeleton_config() returned
    locals,           \* local variables of process_document_task
    raisedAt,         \* the steps of the run in which an exception was raised
    extraction,       \* the call of extract_fields_task by the run, if it was made
    result,           \* what process_document_task returned
    phases,           \* the orchestrator states the run went through, in order
    jobs,             \* the jobs on the RQ backend queue
    queueCall,        \* the last adapter call and how it ended
    adapter,          \* the adapter object get_queue_adapter handed out, if any
    factoryCall,      \* the last call of get_queue_adapter and how it ended
    backend,          \* the jobs Redis holds, by id, with the status RQ reports
    statusCall,       \* the last call of get_task_status and what it returned
    cacheCall,        \* the last call of a TemplateCache method and how it ended
    clock,            \* datetime.utcnow(), in ticks
    sessions,         \* the cache_template calls in flight, by caller
    files,            \* the file names in the queue item directory of the document
    runs,             \* how many times process_document_task was started for it
    compareCall,      \* the last stand-alone call of compare_fingerprints and its score
    fingerprintCall,  \* the last call of compute_structural_fingerprint and what it returned
    scorerCall,       \* the last call of a ConfidenceScorer method and what it returned
    cropCall          \* the last call of ImagePreprocessor._remove_borders and what it did

matchVars == <<matchCall>>
runVars   == <<pc, args, config, skeleton_config, locals, raisedAt, extraction, result, phases>>
pipeVars  == <<runVars, files, runs>>
queueVars == <<jobs, queueCall>>
adapterVars == <<adapter, factoryCall, backend, statusCall>>
cacheVars == <<cacheCall, clock, sessions>>
structVars == <<compareCall, fingerprintCall>>
utilVars  == <<scorerCall, cropCall>>
auxVars   == <<adapterVars, cacheVars, structVars, utilVars>>
vars      == <<templates, matchCall, pc, args, config, skeleton_config, locals, raisedAt,
               extraction, result, phases, jobs, queueCall, adapter, factoryCall, backend,
               statusCall, cacheCall, clock, sessions, files, runs, compareCall, fingerprintCall,
               scorerCall, cropCall>>

-----------------------------------------------------------------------------
(* Bounds of the model *)

\* most rows of cached_templates in a stand-alone match_template check
MaxTemplates == 2
\* most rows of cached_templates under a process_document_task run
MaxPipelineTemplates == 1
\* most jobs on the backend queue
MaxJobs == 3

-----------------------------------------------------------------------------
(* Fixed-point arithmetic *)

One == 10 ^ 3

Abs(x) == IF x < 0 THEN -x ELSE x
Min2(a, b) == IF a < b THEN a ELSE b
Max2(a, b) == IF a > b THEN a ELSE b

\* None of Python, for a value that is otherwise a record
None == [none |-> TRUE]
\* None of Python, for a value that is otherwise a string
NoneStr == "None"

\* a dict without keys
EmptyDict == [k \in {} |-> TRUE]

\* nothing was called on the queue adapter factory or on get_task_status
AdapterIdle ==
    /\ adapter = None
    /\ factoryCall = None
    /\ backend = EmptyDict
    /\ statusCall = None

\* no TemplateCache method was called
CacheIdle ==
    /\ cacheCall = None
    /\ clock = 0
    /\ sessions = EmptyDict

\* the parts of the state a specification leaves alone
\* the queue item directory of a document that was not processed before
DirectoryEmpty == files = {} /\ runs = 1

\* nothing was called on matching/structural.py by itself
StructIdle == compareCall = None /\ fingerprintCall = None

\* nothing was called on the confidence scorer or on the border removal
UtilIdle == scorerCall = None /\ cropCall = None

AuxIdle == AdapterIdle /\ CacheIdle /\ DirectoryEmpty /\ StructIdle /\ UtilIdle

RECURSIVE SqrtSearch(_, _, _)
SqrtSearch(n, lo, hi) ==
    IF lo >= hi THEN lo
    ELSE LET mid == (lo + hi + 1) \div 2
         IN  IF mid * mid <= n THEN SqrtSearch(n, mid, hi)
                               ELSE SqrtSearch(n, lo, mid - 1)

\* np.sqrt on a sum of squared thousandths: the floor of the square root
Sqrt(n) == SqrtSearch(n, 0, 3 * One)

RECURSIVE ExpSeries(_, _, _, _)
ExpSeries(x, k, term, acc) ==
    IF term = 0 THEN acc
    ELSE LET t == (term * x) \div (k * One)
         IN  ExpSeries(x, k + 1, t, acc + t)

\* np.exp(-distance * 2) for a distance in thousandths, in thousandths:
\* 1 / e^x by the power series of e^x, x = 2 * distance
ExpNeg2(distance) == (One * One) \div ExpSeries(2 * distance, 1, One, One)

-----------------------------------------------------------------------------
(* Structural fingerprints: matching/structural.py *)

ZoneTypes == <<"header", "table", "footer", "logo", "other">>

Zone(type, x, y, w, h, a) ==
    [type |-> type, x_ratio |-> x, y_ratio |-> y, width_ratio |-> w,
     height_ratio |-> h, area_ratio |-> a]

Fingerprint(zones, area) ==
    [zones |-> zones, zone_count |-> Len(zones), total_content_area_ratio |-> area]

\* no content detected (structural.py:58-66)
FpEmpty   == Fingerprint(<<>>, 0)
FpInvoice == Fingerprint(<<Zone("header", 50, 50, 900, 100, 90),
                           Zone("table", 50, 250, 900, 400, 360),
                           Zone("footer", 50, 800, 900, 100, 90)>>, 540)
FpReceipt == Fingerprint(<<Zone("header", 100, 20, 800, 150, 120),
                           Zone("other", 100, 400, 300, 300, 90)>>, 210)
FpNote    == Fingerprint(<<Zone("other", 100, 400, 300, 300, 90)>>, 90)

\* the fingerprints documents and templates are drawn from
FingerprintSamples == {FpEmpty, FpInvoice, FpReceipt, FpNote}

ZonesOfType(zones, t) == SelectSeq(zones, LAMBDA z : z.type = t)

Sq(x) == x * x

\* Euclidean distance over the five ratio features (structural.py:225-241)
ZoneDistance(z1, z2) ==
    Sqrt(Sq(z1.x_ratio - z2.x_ratio) + Sq(z1.y_ratio - z2.y_ratio)
         + Sq(z1.width_ratio - z2.width_ratio) + Sq(z1.height_ratio - z2.height_ratio)
         + Sq(z1.area_ratio - z2.area_ratio))

\* a variant of zone_scores that pairs the first zone of a type on one side
\* with the last zone of that type on the other
RECURSIVE ZoneScoresFirstLast(_, _, _)
ZoneScoresFirstLast(zones1, zones2, i) ==
    IF i > Len(ZoneTypes) THEN <<>>
    ELSE LET t1 == ZonesOfType(zones1, ZoneTypes[i])
             t2 == ZonesOfType(zones2, ZoneTypes[i])
             rest == ZoneScoresFirstLast(zones1, zones2, i + 1)
         IN  IF Len(t1) = 0 \/ Len(t2) = 0 THEN rest
             ELSE <<ExpNeg2(ZoneDistance(t1[1], t2[Len(t2)]))>> \o rest

\* zone_scores: one score per zone type present on both sides, from the
\* first zone of that type on each side (structural.py:212-247)
RECURSIVE ZoneScores(_, _, _)
ZoneScores(zones1, zones2, i) ==
    IF i > Len(ZoneTypes) THEN <<>>
    ELSE LET t1 == ZonesOfType(zones1, ZoneTypes[i])
             t2 == ZonesOfType(zones2, ZoneTypes[i])
             rest == ZoneScores(zones1, zones2, i + 1)
         IN  IF Len(t1) = 0 \/ Len(t2) = 0 THEN rest
             ELSE <<ExpNeg2(ZoneDistance(t1[1], t2[1]))>> \o rest

RECURSIVE SumSeq(_)
SumSeq(s) == IF s = <<>> THEN 0 ELSE Head(s) + SumSeq(Tail(s))

Clip(x, lo, hi) == Max2(lo, Min2(x, hi))

\* the weighted score of zone count, content area and zone positions, clipped
\* to [0, 1] (structural.py:178-263)
WeightedScore(fingerprint1, fingerprint2) ==
    LET zones1 == fingerprint1.zones
        zones2 == fingerprint2.zones
        zone_count_diff == Abs(Len(zones1) - Len(zones2))
        max_zones == Max2(Len(zones1), Len(zones2))
        zone_count_score == IF max_zones > 0
                            THEN One - (zone_count_diff * One) \div max_zones
                            ELSE One
        area_diff == Abs(fingerprint1.total_content_area_ratio
                         - fingerprint2.total_content_area_ratio)
        area_score == One - Min2(area_diff, One)
        zone_scores == ZoneScores(zones1, zones2, 1)
        avg_zone_score == IF Len(zone_scores) > 0
                          THEN SumSeq(zone_scores) \div Len(zone_scores)
                          ELSE 0
        overall_score == (300 * zone_count_score + 200 * area_score
                          + 500 * avg_zone_score) \div One
    IN  Clip(overall_score, 0, One)

\* a variant of compare_fingerprints without the two checks for empty zone lists
CompareWithoutEmptyChecks(fingerprint1, fingerprint2) ==
    WeightedScore(fingerprint1, fingerprint2)

\* structural.py:151-263: 1.0 for two empty zone lists, 0.0 for one, else the
\* weighted score
compare_fingerprints(fingerprint1, fingerprint2) ==
    LET zones1 == fingerprint1.zones
        zones2 == fingerprint2.zones
    IN  IF Len(zones1) = 0 /\ Len(zones2) = 0 THEN One
        ELSE IF Len(zones1) = 0 \/ Len(zones2) = 0 THEN 0
        ELSE WeightedScore(fingerprint1, fingerprint2)

-----------------------------------------------------------------------------
(* The cached_templates table: database/models.py *)

Tenants == {"app_a", "app_b"}
TemplateIds == {"tpl_1", "tpl_2"}

\* format_name is nullable; the samples give one template a name and one none
FormatNameOf(template_id) == IF template_id = "tpl_1" THEN "thermal_3x12" ELSE NoneStr

\* a row without its primary key
CachedTemplate(app, template_id, fp) ==
    [calling_app_id |-> app, template_id |-> template_id,
     format_name |-> FormatNameOf(template_id), structural_fingerprint |-> fp]

\* the primary key column id (a uuid4 per row): here the row's position
WithIds(rows) == [i \in DOMAIN rows |-> [id |-> i] @@ rows[i]]

\* the rows the table can hold: structural_fingerprint is nullable
TemplateRows ==
    {CachedTemplate(app, tid, fp) :
        app \in Tenants, tid \in TemplateIds, fp \in FingerprintSamples \cup {None}}

RECURSIVE SeqsUpTo(_, _)
SeqsUpTo(S, n) ==
    IF n = 0 THEN {<<>>}
    ELSE LET shorter == SeqsUpTo(S, n - 1)
         IN  shorter \cup {Append(s, x) : s \in {t \in shorter : Len(t) = n - 1}, x \in S}

\* the contents the table can have, with at most n rows
Tables(n) == {WithIds(rows) : rows \in SeqsUpTo(TemplateRows, n)}

-----------------------------------------------------------------------------
(* match_template: tasks/matching_task.py *)

\* a variant of the query without the filter on calling_app_id
QueryTemplatesAnyTenant(rows, calling_app_id) ==
    SelectSeq(rows, LAMBDA t : t.structural_fingerprint # None)

\* session.query(CachedTemplate).filter(calling_app_id == ..., structural_fingerprint IS NOT NULL).all()
QueryTemplates(rows, calling_app_id) ==
    SelectSeq(rows, LAMBDA t : t.calling_app_id = calling_app_id
                               /\ t.structural_fingerprint # None)

\* a variant of the comparison that lets a later template with an equal score win
BeatsOrTiesBest(score, best_score) == score >= best_score

\* the comparison a template's score has to win to become best_match (matching_task.py:78)
BeatsBest(score, best_score) == score > best_score

\* the loop over the templates (matching_task.py:68-80); best_match is an index, 0 for None
RECURSIVE MatchLoop(_, _, _, _, _)
MatchLoop(ts, image_fingerprint, i, best_match, best_score) ==
    IF i > Len(ts) THEN [best_match |-> best_match, best_score |-> best_score]
    ELSE IF ts[i].structural_fingerprint = None
         THEN MatchLoop(ts, image_fingerprint, i + 1, best_match, best_score)
    ELSE LET score == compare_fingerprints(image_fingerprint, ts[i].structural_fingerprint)
         IN  IF BeatsBest(score, best_score)
             THEN MatchLoop(ts, image_fingerprint, i + 1, i, score)
             ELSE MatchLoop(ts, image_fingerprint, i + 1, best_match, best_score)

\* {queue_directory}/{queue_item_id}/<name> (utils/file_utils.py:26-50)
QueuePath(queue_item_id, name) == [dir |-> queue_item_id, file |-> name]

VisualizationPath(queue_item_id) == QueuePath(queue_item_id, "match_visualization.png")

\* the value match_template returns when the image loads (matching_task.py:46-102)
match_template(rows, image_fingerprint, queue_item_id, calling_app_id) ==
    LET ts == QueryTemplates(rows, calling_app_id)
        best == MatchLoop(ts, image_fingerprint, 1, 0, 0)
        matched == best.best_match # 0
    IN  IF Len(ts) = 0
        THEN [matched_template_id |-> NoneStr, match_score |-> 0,
              template_name |-> NoneStr, visualization_path |-> None,
              fingerprint |-> image_fingerprint]
        ELSE [matched_template_id |-> IF matched THEN ts[best.best_match].template_id
                                                 ELSE NoneStr,
              match_score |-> best.best_score,
              template_name |-> IF matched THEN ts[best.best_match].format_name
                                           ELSE NoneStr,
              visualization_path |-> IF matched /\ best.best_score > 0
                                     THEN VisualizationPath(queue_item_id) ELSE None,
              fingerprint |-> image_fingerprint]

-----------------------------------------------------------------------------
(* Python calls and dicts *)

\* how a call ends: it returns a value or raises an exception
Return(v) == [kind |-> "return", value |-> v]
Raise(e)  == [kind |-> "raise", error |-> e]

\* dict.get(key, default)
Get(d, key, default) == IF key \in DOMAIN d THEN d[key] ELSE default

\* present ? {key: value} : {}
Entry(present, key, value) == IF present THEN key :> value ELSE EmptyDict

-----------------------------------------------------------------------------
(* Configuration: config.py, development/skeleton.yaml *)

\* thresholds.auto_match of digidoc_config.yaml; a missing key reads as None
\* (config.py:22-32)
Configs == {[thresholds |-> Entry(present, "auto_match", 850)] : present \in BOOLEAN}

\* the keys of skeleton.yaml process_document_task and extract_fields_task read,
\* each present or absent
SkeletonConfigs ==
    {Entry(sc, "save_comparison", FALSE)
       @@ Entry(um, "use_mock_matching", TRUE)
       @@ Entry(fb, "fallback_confidence", 500)
       @@ Entry(ov, "auto_match_threshold_override", One)
       @@ Entry(fs # NoneStr, "force_status", fs)
       @@ Entry(ue, "use_mock_extraction", TRUE) :
         sc \in BOOLEAN, um \in BOOLEAN, fb \in BOOLEAN, ov \in BOOLEAN,
         fs \in {NoneStr, "completed", "on_hold"}, ue \in BOOLEAN}

\* template_config.get('fallback_confidence', 0.85)
DefaultFallbackConfidence == 850

DefaultMockTemplateName == "mock_template"

-----------------------------------------------------------------------------
(* extract_fields_task: tasks/document_tasks.py:371-440 *)

\* what DocumentExtractor().extract(image_path) does: it returns fields, returns
\* the minimal result of an undetected format, or raises
ExtractorOutcomes == {"fields", "no_format", "raise"}

DocumentExtractor_extract(outcome) ==
    IF outcome = "fields"
    THEN Return([vendor |-> "Mead Clark", format_detected |-> "mead_clark_format1",
                 confidence |-> 900, confidence_level |-> "high",
                 fields |-> [receipt_date |-> "2025-12-23", total_amount |-> "12.50"],
                 ocr_text |-> 240])
    ELSE IF outcome = "no_format"
    THEN Return([vendor |-> NoneStr, format_detected |-> NoneStr,
                 confidence |-> 0, confidence_level |-> "low",
                 fields |-> EmptyDict, ocr_text |-> 0,
                 error |-> "No matching format detected"])
    ELSE Raise("extractor error")

\* how the extractor ended under extract_fields_task: with use_mock_extraction
\* it is not called (document_tasks.py:388-407)
ExtractorRun(skeleton, outcome) ==
    IF Get(skeleton, "use_mock_extraction", FALSE) THEN "not_called" ELSE outcome

\* a variant of the except clause that lets the exception out
ExtractionFailureReraised(error, queue_item_id, template_id) == Raise(error)

\* the except clause of extract_fields_task (document_tasks.py:427-440)
ExtractionFailure(error, queue_item_id, template_id) ==
    Return([status |-> "partial", queue_item_id |-> queue_item_id,
            template_id |-> template_id, extracted_fields |-> EmptyDict,
            error |-> error, skeleton_mode |-> FALSE])

extract_fields_task(image_path, queue_item_id, template_id, skeleton, outcome) ==
    LET use_mock_extraction == Get(skeleton, "use_mock_extraction", FALSE)
        mock_fields == [total |-> "0.00", date |-> "2025-12-23", vendor |-> "Mock Vendor"]
        call == DocumentExtractor_extract(outcome)
        extraction_result == call.value
    IN  IF use_mock_extraction
        THEN Return([status |-> "success", queue_item_id |-> queue_item_id,
                     template_id |-> template_id, extracted_fields |-> mock_fields,
                     skeleton_mode |-> TRUE])
        ELSE IF call.kind = "raise"
        THEN ExtractionFailure(call.error, queue_item_id, template_id)
        ELSE Return([status |-> "success", queue_item_id |-> queue_item_id,
                     template_id |-> template_id,
                     extracted_fields |-> extraction_result.fields,
                     extraction_metadata |->
                         [vendor |-> extraction_result.vendor,
                          format_detected |-> extraction_result.format_detected,
                          confidence |-> extraction_result.confidence,
                          confidence_level |-> extraction_result.confidence_level,
                          ocr_text_length |-> extraction_result.ocr_text],
                     skeleton_mode |-> FALSE])

-----------------------------------------------------------------------------
(* process_document_task: tasks/document_tasks.py:173-334 *)

QueueItemId == "q1"

\* Path(source_path).suffix, '.png' when empty (utils/file_utils.py:89-94)
OriginalPath(file_path, queue_item_id) ==
    QueuePath(queue_item_id, "original" \o (IF file_path.suffix = "" THEN ".png"
                                            ELSE file_path.suffix))

\* shutil.copy2 and cv2.imwrite create the file or overwrite the file of that
\* name (utils/file_utils.py:95-97, 123-125); no path, no file
WriteFile(directory, path) == IF path = None THEN directory ELSE directory \cup {path.file}

PreprocessedPath(queue_item_id) == QueuePath(queue_item_id, "preprocessed.png")
ComparisonPath(queue_item_id) == QueuePath(queue_item_id, "preprocessing_comparison.png")

\* type('MockTemplate', (), {'format_name': mock_template_name, 'id': None})(); id 0 for None
MockTemplate == [format_name |-> DefaultMockTemplateName, id |-> 0]

\* str(e) of the exception a step raises
ErrorText(step) == <<"error in", step>>

\* the values of the local variables before they are assigned
NoLocals ==
    [original_path |-> None, preprocessed_path |-> None, comparison_path |-> None,
     match_result |-> None, best_match |-> None, best_score |-> 0]

\* the dict of the outer except clause (document_tasks.py:325-334)
FailedResult(error, queue_item_id) ==
    [status |-> "failed", error |-> error, queue_item_id |-> queue_item_id]

\* the dict returned under force_status (document_tasks.py:277-287)
ForcedResult(force_status, l, queue_item_id) ==
    [status |-> force_status, confidence |-> l.best_score,
     template_matched |-> l.best_match.format_name, queue_item_id |-> queue_item_id,
     preprocessed_path |-> l.preprocessed_path, original_path |-> l.original_path,
     comparison_path |-> l.comparison_path, skeleton_mode |-> TRUE]

\* the dict returned after extraction (document_tasks.py:294-310)
CompletedResult(l, extraction_result, queue_item_id) ==
    [status |-> "completed", confidence |-> l.best_score,
     template_matched |-> l.best_match.format_name,
     extracted_fields |-> extraction_result.extracted_fields,
     queue_item_id |-> queue_item_id,
     preprocessed_path |-> l.preprocessed_path, original_path |-> l.original_path,
     comparison_path |-> l.comparison_path,
     skeleton_mode |-> extraction_result.skeleton_mode]
    @@ Entry("extraction_metadata" \in DOMAIN extraction_result, "extraction_metadata",
             Get(extraction_result, "extraction_metadata", None))

\* a variant of the review dict with a status outside the terminal statuses
ReviewResultPending(l, queue_item_id) ==
    [status |-> "pending", confidence |-> l.best_score,
     template_matched |-> l.best_match.format_name,
     message |-> "Low confidence - requires human review",
     queue_item_id |-> queue_item_id,
     preprocessed_path |-> l.preprocessed_path, original_path |-> l.original_path,
     comparison_path |-> l.comparison_path, skeleton_mode |-> TRUE]

\* the dict returned below the threshold (document_tasks.py:311-323)
ReviewResult(l, queue_item_id) ==
    [status |-> "review", confidence |-> l.best_score,
     template_matched |-> l.best_match.format_name,
     message |-> "Low confidence - requires human review",
     queue_item_id |-> queue_item_id,
     preprocessed_path |-> l.preprocessed_path, original_path |-> l.original_path,
     comparison_path |-> l.comparison_path, skeleton_mode |-> TRUE]

\* a variant of the decision gate that excludes the threshold itself
AutoMatchStrict(best_score, threshold) == best_score > threshold

\* the decision gate (document_tasks.py:289)
AutoMatch(best_score, auto_match_threshold) == best_score >= auto_match_threshold

\* an exception reaches the outer except clause: the run returns the failed dict
Fail(step) ==
    /\ pc' = "done"
    /\ raisedAt' = raisedAt \cup {step}
    /\ result' = FailedResult(ErrorText(step), args.queue_item_id)
    /\ phases' = Append(phases, "Routed")

\* template_config.get('fallback_confidence', 0.85) (line 223)
fallback_confidence == Get(skeleton_config, "fallback_confidence", DefaultFallbackConfidence)

\* decision_config.get('force_status') (line 271)
force_status == Get(skeleton_config, "force_status", NoneStr)

\* auto_match_threshold is None when there is neither an override nor a
\* configured thresholds.auto_match (lines 270-274)
has_threshold ==
    \/ "auto_match_threshold_override" \in DOMAIN skeleton_config
    \/ "auto_match" \in DOMAIN config.thresholds

auto_match_threshold ==
    IF "auto_match_threshold_override" \in DOMAIN skeleton_config
    THEN skeleton_config["auto_match_threshold_override"]
    ELSE config.thresholds["auto_match"]

\* lines 192-193: get_config() and _load_skeleton_config(), before the try block.
\* get_config raises when the config file is missing or empty (config.py:99-113).
GetConfig ==
    /\ pc = "start"
    /\ \E outcome \in {"ok", "raise"} :
         IF outcome = "raise"
         THEN /\ pc' = "raised"
              /\ raisedAt' = raisedAt \cup {"config"}
              /\ UNCHANGED <<config, skeleton_config, phases>>
         ELSE /\ \E c \in Configs, s \in SkeletonConfigs :
                    config' = c /\ skeleton_config' = s
              /\ pc' = "save_original"
              /\ phases' = Append(phases, "Received")
              /\ UNCHANGED raisedAt
    /\ UNCHANGED <<templates, args, locals, extraction, result, files, runs, matchVars,
                   queueVars, auxVars>>

\* lines 196-201: the queue item directory and the copy of the original file
SaveOriginal ==
    /\ pc = "save_original"
    /\ \E outcome \in {"ok", "raise"} :
         IF outcome = "raise"
         THEN Fail("persist") /\ UNCHANGED <<locals, files>>
         ELSE /\ locals' = [locals EXCEPT !.original_path =
                               OriginalPath(args.file_path, args.queue_item_id)]
              /\ files' = WriteFile(files, OriginalPath(args.file_path, args.queue_item_id))
              /\ pc' = "preprocess"
              /\ UNCHANGED <<raisedAt, result, phases>>
    /\ UNCHANGED <<templates, args, config, skeleton_config, extraction, runs, matchVars,
                   queueVars, auxVars>>

\* lines 203-217: ImagePreprocessor.preprocess raises when the image cannot be
\* decoded (image_preprocessing.py:35-37); the comparison image is saved when
\* configured and _save_preprocessing_comparison returns None when it cannot
Preprocess ==
    /\ pc = "preprocess"
    /\ \E outcome \in {"ok", "raise"}, comparison_saved \in BOOLEAN :
         IF outcome = "raise"
         THEN Fail("preprocessing") /\ UNCHANGED <<locals, files>>
         ELSE /\ locals' = [locals EXCEPT
                    !.preprocessed_path = PreprocessedPath(args.queue_item_id),
                    !.comparison_path =
                        IF Get(skeleton_config, "save_comparison", TRUE) /\ comparison_saved
                        THEN ComparisonPath(args.queue_item_id) ELSE None]
              /\ files' = WriteFile(WriteFile(files, PreprocessedPath(args.queue_item_id)),
                                    IF Get(skeleton_config, "save_comparison", TRUE)
                                       /\ comparison_saved
                                    THEN ComparisonPath(args.queue_item_id) ELSE None)
              /\ pc' = "match"
              /\ phases' = Append(phases, "Preprocessed")
              /\ UNCHANGED <<raisedAt, result>>
    /\ UNCHANGED <<templates, args, config, skeleton_config, extraction, runs, matchVars,
                   queueVars, auxVars>>

\* lines 264-266: a MockTemplate stands in when there is no best_match
OrMock(best_match) == IF best_match = None THEN MockTemplate ELSE best_match

\* lines 252-257: no matched_template_id
NoMatchScore(best_score, fallback) == IF best_score = 0 THEN fallback ELSE best_score

\* lines 219-240, 251-266: mock matching, or the call of match_template; the
\* inner except clause turns an exception of match_template into the fallback
MatchStep ==
    /\ pc = "match"
    /\ IF Get(skeleton_config, "use_mock_matching", FALSE)
       THEN /\ locals' = [locals EXCEPT !.best_match = MockTemplate,
                                        !.best_score = fallback_confidence]
            /\ pc' = "decide"
            /\ phases' = Append(phases, "Matched")
            /\ UNCHANGED <<raisedAt, files>>
       ELSE \E outcome \in {"ok", "raise"}, image_fingerprint \in FingerprintSamples :
              IF outcome = "raise"
              THEN /\ locals' = [locals EXCEPT !.best_match = OrMock(None),
                                               !.best_score = fallback_confidence]
                   /\ raisedAt' = raisedAt \cup {"matching"}
                   /\ pc' = "decide"
                   /\ phases' = Append(phases, "Matched")
                   /\ UNCHANGED files
              ELSE LET match_result == match_template(templates, image_fingerprint,
                                                      args.queue_item_id, args.calling_app_id)
                   IN  IF match_result.matched_template_id # NoneStr
                       THEN /\ locals' = [locals EXCEPT
                                             !.match_result = match_result,
                                             !.best_score = match_result.match_score]
                            /\ files' = WriteFile(files, match_result.visualization_path)
                            /\ pc' = "load_match"
                            /\ UNCHANGED <<raisedAt, phases>>
                       ELSE /\ locals' = [locals EXCEPT
                                             !.match_result = match_result,
                                             !.best_match = OrMock(None),
                                             !.best_score = NoMatchScore(match_result.match_score,
                                                                         fallback_confidence)]
                            /\ files' = WriteFile(files, match_result.visualization_path)
                            /\ pc' = "decide"
                            /\ phases' = Append(phases, "Matched")
                            /\ UNCHANGED raisedAt
    /\ UNCHANGED <<templates, args, config, skeleton_config, extraction, result, runs,
                   matchVars, queueVars, auxVars>>

\* session.query(CachedTemplate).filter_by(template_id=..., calling_app_id=...).first()
FirstTemplate(rows, template_id, calling_app_id) ==
    LET found == SelectSeq(rows, LAMBDA t : t.template_id = template_id
                                           /\ t.calling_app_id = calling_app_id)
    IN  IF Len(found) = 0 THEN None
        ELSE [format_name |-> found[1].format_name, id |-> found[1].id]

\* lines 241-250, 258-266: the matched template is loaded from the table
LoadBestMatch ==
    /\ pc = "load_match"
    /\ \E outcome \in {"ok", "raise"} :
         IF outcome = "raise"
         THEN /\ locals' = [locals EXCEPT !.best_match = OrMock(None),
                                          !.best_score = fallback_confidence]
              /\ raisedAt' = raisedAt \cup {"matching"}
         ELSE /\ locals' = [locals EXCEPT !.best_match =
                    OrMock(FirstTemplate(templates, locals.match_result.matched_template_id,
                                         args.calling_app_id))]
              /\ UNCHANGED raisedAt
    /\ pc' = "decide"
    /\ phases' = Append(phases, "Matched")
    /\ UNCHANGED <<templates, args, config, skeleton_config, extraction, result, files, runs,
                   matchVars, queueVars, auxVars>>

\* lines 268-323: the threshold, force_status, and the decision gate with the
\* call of extract_fields_task
Decide ==
    /\ pc = "decide"
    /\ IF force_status # NoneStr
           THEN /\ result' = ForcedResult(force_status, locals, args.queue_item_id)
                /\ pc' = "done"
                /\ phases' = phases \o <<"Skipped", "Routed">>
                /\ UNCHANGED <<raisedAt, extraction>>
           ELSE IF ~has_threshold
           THEN Fail("decision") /\ UNCHANGED extraction
           ELSE IF AutoMatch(locals.best_score, auto_match_threshold)
           THEN \E outcome \in ExtractorOutcomes :
                  LET call == extract_fields_task(locals.preprocessed_path,
                                 args.queue_item_id, locals.best_match.id,
                                 skeleton_config, outcome)
                  IN  IF call.kind = "raise"
                      THEN /\ Fail("extraction")
                           /\ extraction' = [extractor |-> ExtractorRun(skeleton_config, outcome),
                                             call |-> call]
                      ELSE /\ extraction' = [extractor |-> ExtractorRun(skeleton_config, outcome),
                                             call |-> call]
                           /\ result' = CompletedResult(locals, call.value, args.queue_item_id)
                           /\ pc' = "done"
                           /\ phases' = phases \o <<"Extracted", "Routed">>
                           /\ UNCHANGED raisedAt
           ELSE /\ result' = ReviewResult(locals, args.queue_item_id)
                /\ pc' = "done"
                /\ phases' = phases \o <<"Skipped", "Routed">>
                /\ UNCHANGED <<raisedAt, extraction>>
    /\ UNCHANGED <<templates, args, config, skeleton_config, locals, files, runs, matchVars,
                   queueVars, auxVars>>

Init ==
    /\ templates \in Tables(MaxPipelineTemplates)
    /\ pc = "start"
    /\ args = [file_path |-> [suffix |-> ".jpg"], queue_item_id |-> QueueItemId,
                calling_app_id |-> "app_a"]
    /\ config = None
    /\ skeleton_config = None
    /\ locals = NoLocals
    /\ raisedAt = {}
    /\ extraction = None
    /\ result = None
    /\ phases = <<>>
    /\ matchCall = None
    /\ jobs = <<>>
    /\ queueCall = None
    /\ AuxIdle

Next ==
    \/ GetConfig
    \/ SaveOriginal
    \/ Preprocess
    \/ MatchStep
    \/ LoadBestMatch
    \/ Decide

Spec == Init /\ [][Next]_vars

-----------------------------------------------------------------------------
(* Claims about process_document_task, checked under Spec *)

Range(seq) == {seq[i] : i \in DOMAIN seq}

Returned == pc = "done"

\* the run got as far as the decision gate with a threshold to compare with
GateReached == Returned /\ "Matched" \in Range(phases) /\ has_threshold

TerminalStatuses == {"completed", "review", "failed"}

\* C1 (as stated): whenever a step of process_document_task raised, the run
\* ends by returning a result with status 'failed' that carries the error text
\* of a raised exception, and nothing propagates to the caller.
\* Violated: get_config() is called before the try block, so its exception
\* propagates (pc = "raised"); an exception of match_template is swallowed by
\* the inner except clause and the run goes on.
C1_EveryFailureReturnsFailed ==
    (raisedAt # {} /\ pc \in {"done", "raised"}) =>
        /\ pc = "done"
        /\ result.status = "failed"
        /\ \E step \in raisedAt : result.error = ErrorText(step)

PhaseRank(phase) ==
    CASE phase = "Received"     -> 1
      [] phase = "Preprocessed" -> 2
      [] phase = "Matched"      -> 3
      [] phase = "Extracted"    -> 4
      [] phase = "Skipped"      -> 4
      [] phase = "Routed"       -> 5

\* the states are entered in the order Received, Preprocessed, Matched,
\* (Extracted | Skipped), Routed: none twice, none before an earlier one, a
\* returned run ends in Routed, and a run that did not fail went through all five
StateOrder ==
    /\ \A i, j \in DOMAIN phases : i < j => PhaseRank(phases[i]) < PhaseRank(phases[j])
    /\ phases # <<>> => phases[1] = "Received"
    /\ \A i \in DOMAIN phases :
          (i > 1 /\ phases[i] # "Routed") => PhaseRank(phases[i]) = PhaseRank(phases[i - 1]) + 1
    /\ Returned => phases[Len(phases)] = "Routed"
    /\ (Returned /\ result.status # "failed") => Len(phases) = 5

NoTemplateMatched ==
    /\ locals.match_result # None
    /\ locals.match_result.matched_template_id = NoneStr

\* C4 (as stated, for runs without force_status): when match_template returns
\* no matched template, the run reports the fallback confidence, no matched
\* template, and status 'review'.
\* Violated: the fallback confidence goes through the same gate as a match
\* score, and with the default 0.85 against a threshold of 0.85 the run is
\* 'completed'; the result names the mock template as template_matched.
C4_NoTemplateRoutesToReview ==
    (GateReached /\ force_status = NoneStr /\ NoTemplateMatched
       /\ locals.match_result.match_score = 0) =>
        /\ result.confidence = fallback_confidence
        /\ result.status = "review"

\* C5 (as stated): when preprocessing or match_template raised, the run returns
\* status 'failed' with the error text and never reaches the decision gate.
\* Violated: the inner except clause around match_template falls back to the
\* default confidence and the run goes on to the gate.
C5_PreprocessOrMatchErrorFails ==
    (Returned /\ raisedAt \cap {"preprocessing", "matching"} # {}) =>
        /\ result.status = "failed"
        /\ \E step \in raisedAt : result.error = ErrorText(step)
        /\ Range(phases) \cap {"Extracted", "Skipped"} = {}

C7_FailedExtractionRoutesToReview ==
    (Returned /\ extraction # None /\ extraction.call.kind = "return"
       /\ extraction.call.value.status = "partial") =>
        result.status = "review"

\* a template of the table was matched and loaded as best_match
TemplateMatched == locals.best_match # None /\ locals.best_match.id # 0

\* C8 (as stated): every returned result records the confidence, the matched
\* template's id when a template matched, and the artifact paths; a completed
\* one records extracted fields and extraction metadata as well.
\* Violated: the failed dict holds only status, error and queue_item_id; no
\* result holds a template id (template_matched is the format name); the
\* extraction metadata is missing under mock or failed extraction.
C8_TerminalResultIsComplete ==
    Returned =>
        /\ {"confidence", "original_path", "preprocessed_path", "comparison_path"}
              \subseteq DOMAIN result
        /\ TemplateMatched =>
              \E key \in DOMAIN result :
                  result[key] = locals.match_result.matched_template_id
        /\ result.status = "completed" =>
              {"extracted_fields", "extraction_metadata"} \subseteq DOMAIN result

-----------------------------------------------------------------------------
(* Stand-alone calls of match_template over a table of several tenants *)

\* what cv2.imread and compute_structural_fingerprint give for the image at
\* image_path: None is an image that cannot be loaded (matching_task.py:41-47)
ImageOutcomes == FingerprintSamples \cup {None}

\* one call of match_template (matching_task.py:19-105): get_config() can
\* raise, an unloadable image raises ValueError, otherwise the result is returned
MatchTemplateCall ==
    /\ \E calling_app_id \in Tenants, image \in ImageOutcomes, config_ok \in BOOLEAN :
         /\ matchCall' =
               [calling_app_id |-> calling_app_id,
                image |-> image,
                call |-> IF ~config_ok THEN Raise(ErrorText("config"))
                         ELSE IF image = None THEN Raise(<<"ValueError", "Could not load image">>)
                         ELSE Return(match_template(templates, image, QueueItemId,
                                                    calling_app_id))]
         \* generate_match_visualization writes into the queue item directory (lines 82-92)
         /\ files' = IF config_ok /\ image # None
                      THEN WriteFile(files, match_template(templates, image, QueueItemId,
                                                          calling_app_id).visualization_path)
                      ELSE files
    /\ UNCHANGED <<templates, runVars, runs, queueVars, auxVars>>

MatchInit ==
    /\ templates \in Tables(MaxTemplates)
    /\ pc = "start"
    /\ args = [file_path |-> [suffix |-> ".jpg"], queue_item_id |-> QueueItemId,
                calling_app_id |-> "app_a"]
    /\ config = None
    /\ skeleton_config = None
    /\ locals = NoLocals
    /\ raisedAt = {}
    /\ extraction = None
    /\ result = None
    /\ phases = <<>>
    /\ matchCall = None
    /\ jobs = <<>>
    /\ queueCall = None
    /\ AuxIdle

MatchNext == MatchTemplateCall

MatchSpec == MatchInit /\ [][MatchNext]_vars

\* match_template, called once in a behaviour
MatchOnce == matchCall = None /\ MatchTemplateCall

MatchOnceSpec == MatchInit /\ [][MatchOnce]_vars

\* the call of match_template returned a result
MatchReturned == matchCall # None /\ matchCall.call.kind = "return"

\* the rows of the caller's tenant that hold a fingerprint
OwnRows ==
    {i \in DOMAIN templates :
        /\ templates[i].calling_app_id = matchCall.calling_app_id
        /\ templates[i].structural_fingerprint # None}

ScoreOfRow(i) == compare_fingerprints(matchCall.image, templates[i].structural_fingerprint)

\* the highest score among the tenant's rows
MaxOwnScore ==
    CHOOSE m \in {ScoreOfRow(i) : i \in OwnRows} : \A i \in OwnRows : ScoreOfRow(i) <= m

\* the result names a row of the tenant with the highest score
NamesABestOwnRow ==
    \E i \in OwnRows :
        /\ ScoreOfRow(i) = MaxOwnScore
        /\ matchCall.call.value.matched_template_id = templates[i].template_id
        /\ matchCall.call.value.template_name = templates[i].format_name

\* the result is the one the call gives on the tenant's rows alone
OtherTenantsIgnored ==
    matchCall.call.value =
        match_template(SelectSeq(templates,
                                 LAMBDA t : t.calling_app_id = matchCall.calling_app_id),
                       matchCall.image, QueueItemId, matchCall.calling_app_id)

\* C9 (as stated): match_template compares the document only with the tenant's
\* templates and returns the one with the highest compare_fingerprints score,
\* with match_score equal to that maximum; other tenants' rows have no influence.
\* Violated when every score of the tenant's templates is 0.0: best_match stays
\* None (score > best_score starts from 0.0) and no template is returned.
C9_ReturnsHighestScoringOwnTemplate ==
    (MatchReturned /\ OwnRows # {}) =>
        /\ matchCall.call.value.match_score = MaxOwnScore
        /\ NamesABestOwnRow
        /\ OtherTenantsIgnored

\* C9 (amended): the same when the highest score is above 0.0; when it is 0.0
\* no template is returned and match_score is 0.0.
C9_ReturnsHighestScoringOwnTemplateAboveZero ==
    (MatchReturned /\ OwnRows # {}) =>
        /\ matchCall.call.value.match_score = MaxOwnScore
        /\ IF MaxOwnScore > 0 THEN NamesABestOwnRow
           ELSE matchCall.call.value.matched_template_id = NoneStr
        /\ OtherTenantsIgnored

\* C9 witness: the tenant's best row was returned although a row of another
\* tenant scores higher against the document.
C9_Witness ==
    /\ MatchReturned /\ OwnRows # {}
    /\ MaxOwnScore > 0
    /\ matchCall.call.value.match_score = MaxOwnScore
    /\ \E j \in DOMAIN templates :
          /\ templates[j].calling_app_id # matchCall.calling_app_id
          /\ templates[j].structural_fingerprint # None
          /\ compare_fingerprints(matchCall.image, templates[j].structural_fingerprint)
                > MaxOwnScore

-----------------------------------------------------------------------------
(* RQAdapter.enqueue and enqueue_delayed: queue/rq_adapter.py *)

\* a dotted name as the sequence of its components
DocumentTasksModule == <<"ocr_service", "tasks", "document_tasks">>
MatchingTaskModule  == <<"ocr_service", "tasks", "matching_task">>

\* the modules import_module can load, with the functions they define
ImportableModules == {DocumentTasksModule, MatchingTaskModule}

ModuleAttributes(module_path) ==
    IF module_path = DocumentTasksModule
    THEN {"process_document_task", "extract_fields_task"}
    ELSE IF module_path = MatchingTaskModule THEN {"match_template"}
    ELSE {}

\* the task names a caller can pass; <<"", f>> is the name ".f"
TaskNames ==
    { <<"process_document_task">>,
      <<"no_such_task">>,
      DocumentTasksModule \o <<"extract_fields_task">>,
      DocumentTasksModule \o <<"no_such_task">>,
      MatchingTaskModule \o <<"match_template">>,
      <<"ocr_service", "tasks", "no_such_module", "process_document_task">>,
      <<"", "process_document_task">> }

\* task_name.rsplit('.', 1), or the default module (rq_adapter.py:54-60, 167-171)
ModulePathOf(task_name) ==
    IF Len(task_name) > 1 THEN SubSeq(task_name, 1, Len(task_name) - 1)
    ELSE DocumentTasksModule

FuncNameOf(task_name) == task_name[Len(task_name)]

\* import_module(module_path): ValueError for an empty name, ImportError for a
\* module that cannot be found
import_module(module_path) ==
    IF module_path = <<"">> THEN Raise("ValueError")
    ELSE IF module_path \in ImportableModules THEN Return(module_path)
    ELSE Raise("ImportError")

\* a variant of the resolution that trusts the name and leaves the import to the worker
ResolveTaskUnchecked(task_name) ==
    Return([module_path |-> ModulePathOf(task_name), func_name |-> FuncNameOf(task_name)])

\* import_module + getattr under except (ImportError, AttributeError), which
\* re-raises as ValueError; any other exception passes through unchanged
\* (rq_adapter.py:62-93, 173-177)
ResolveTask(task_name) ==
    LET module_path == ModulePathOf(task_name)
        func_name == FuncNameOf(task_name)
        module == import_module(module_path)
    IN  IF module.kind = "raise"
        THEN IF module.error = "ImportError"
             THEN Raise(<<"ValueError", "Could not import task function", task_name>>)
             ELSE Raise(<<module.error, "Empty module name">>)
        ELSE IF func_name \notin ModuleAttributes(module_path)
        THEN Raise(<<"ValueError", "Could not import task function", task_name>>)
        ELSE Return([module_path |-> module_path, func_name |-> func_name])

\* the delays a caller can ask for, in seconds
Delays == {0, 60}

\* TaskResult(task_id, status, message, metadata) (queue_adapter.py)
TaskResult(task_id, status, metadata) ==
    [task_id |-> task_id, status |-> status, metadata |-> metadata]

\* RQAdapter.enqueue (rq_adapter.py:38-148): the backend can refuse the job
\* (Redis unreachable), which propagates
Enqueue ==
    /\ Len(jobs) < MaxJobs
    /\ \E task_name \in TaskNames, backend_up \in BOOLEAN :
         LET task_func == ResolveTask(task_name)
             job_id == Len(jobs) + 1
         IN  IF task_func.kind = "raise"
             THEN /\ queueCall' = [op |-> "enqueue", task_name |-> task_name,
                                   call |-> task_func]
                  /\ UNCHANGED jobs
             ELSE IF ~backend_up
             THEN /\ queueCall' = [op |-> "enqueue", task_name |-> task_name,
                                   call |-> Raise(<<"ConnectionError">>)]
                  /\ UNCHANGED jobs
             ELSE /\ jobs' = Append(jobs, [id |-> job_id, func |-> task_func.value,
                                           status |-> "queued", delay |-> 0])
                  /\ queueCall' = [op |-> "enqueue", task_name |-> task_name,
                                   call |-> Return(TaskResult(job_id, "queued",
                                                [queue_name |-> "default"]))]
    /\ UNCHANGED <<templates, matchVars, pipeVars, auxVars>>

\* RQAdapter.enqueue_delayed (rq_adapter.py:150-193)
EnqueueDelayed ==
    /\ Len(jobs) < MaxJobs
    /\ \E task_name \in TaskNames, delay_seconds \in Delays, backend_up \in BOOLEAN :
         LET task_func == ResolveTask(task_name)
             job_id == Len(jobs) + 1
         IN  IF task_func.kind = "raise"
             THEN /\ queueCall' = [op |-> "enqueue_delayed", task_name |-> task_name,
                                   call |-> task_func]
                  /\ UNCHANGED jobs
             ELSE IF ~backend_up
             THEN /\ queueCall' = [op |-> "enqueue_delayed", task_name |-> task_name,
                                   call |-> Raise(<<"ConnectionError">>)]
                  /\ UNCHANGED jobs
             ELSE /\ jobs' = Append(jobs, [id |-> job_id, func |-> task_func.value,
                                           status |-> "scheduled", delay |-> delay_seconds])
                  /\ queueCall' = [op |-> "enqueue_delayed", task_name |-> task_name,
                                   call |-> Return(TaskResult(job_id, "scheduled",
                                                [queue_name |-> "default",
                                                 delay_seconds |-> delay_seconds]))]
    /\ UNCHANGED <<templates, matchVars, pipeVars, auxVars>>

QueueInit ==
    /\ templates = <<>>
    /\ pc = "start"
    /\ args = [file_path |-> [suffix |-> ".jpg"], queue_item_id |-> QueueItemId,
                calling_app_id |-> "app_a"]
    /\ config = None
    /\ skeleton_config = None
    /\ locals = NoLocals
    /\ raisedAt = {}
    /\ extraction = None
    /\ result = None
    /\ phases = <<>>
    /\ matchCall = None
    /\ jobs = <<>>
    /\ queueCall = None
    /\ AuxIdle

QueueNext == Enqueue \/ EnqueueDelayed

QueueSpec == QueueInit /\ [][QueueNext]_vars

\* the name is that of a function of a module that can be imported
ResolvesToTaskFunction(task_name) ==
    \E module_path \in ImportableModules :
        \E func_name \in ModuleAttributes(module_path) :
            \/ task_name = module_path \o <<func_name>>
            \/ task_name = <<func_name>> /\ module_path = DocumentTasksModule

-----------------------------------------------------------------------------
(* get_queue_adapter and RQAdapter.get_task_status:
   queue/queue_adapter.py, queue/rq_adapter.py *)

\* most jobs Redis knows in a get_task_status check
MaxStatusJobs == 1

\* the job ids a caller can ask about; the last one is never known to Redis
StatusJobIds == 1 .. (MaxStatusJobs + 1)

\* the values of the QUEUE_ADAPTER environment variable ("" is unset)
EnvAdapterNames == {"", "rq", "RQ", "celery", "sqs"}

\* what reading config.queue.adapter gives when the environment does not name
\* the adapter: get_config() raises, there is no queue section (config.py:51-54
\* recurses), the key is missing (None, config.py:26), or a name
ConfigAdapterReads ==
    {Raise("FileNotFoundError"), Raise("RecursionError"), Return(NoneStr),
     Return(""), Return("rq"), Return("Celery"), Return("kafka")}

\* str.lower() over the names above
Lower(name) ==
    CASE name = "RQ" -> "rq"
      [] name = "Celery" -> "celery"
      [] OTHER -> name

\* an RQAdapter object (rq_adapter.py:17-36)
RQAdapter == [class |-> "RQAdapter", queue_name |-> "default"]

\* a variant of the adapter choice that falls back to RQ for an unknown name
AdapterForOrDefault(adapter_type, rq_ok) ==
    IF adapter_type = "celery" THEN Raise("NotImplementedError")
    ELSE IF rq_ok THEN Return(RQAdapter) ELSE Raise("ConnectionError")

\* queue_adapter.py:98-105: RQAdapter() can fail (get_config, Redis.from_url),
\* CeleryAdapter() raises NotImplementedError (celery_adapter.py:15-21)
AdapterFor(adapter_type, rq_ok) ==
    IF adapter_type = "rq"
    THEN IF rq_ok THEN Return(RQAdapter) ELSE Raise("ConnectionError")
    ELSE IF adapter_type = "celery" THEN Raise("NotImplementedError")
    ELSE Raise("ValueError")

\* get_queue_adapter (queue_adapter.py:69-105)
get_queue_adapter(env, config_read, rq_ok) ==
    LET from_env == Lower(env)
    IN  IF from_env # "" THEN AdapterFor(from_env, rq_ok)
        ELSE IF config_read.kind = "raise" THEN config_read
        ELSE IF config_read.value = NoneStr THEN Raise("AttributeError")
        ELSE LET from_config == Lower(config_read.value)
             IN  AdapterFor(IF from_config = "" THEN "rq" ELSE from_config, rq_ok)

\* one call of get_queue_adapter; a call that raises hands out no object
GetQueueAdapter ==
    /\ \E env \in EnvAdapterNames, config_read \in ConfigAdapterReads, rq_ok \in BOOLEAN :
         LET call == get_queue_adapter(env, config_read, rq_ok)
         IN  /\ factoryCall' = [env |-> env, config_read |-> config_read, call |-> call]
             /\ adapter' = IF call.kind = "return" THEN call.value ELSE adapter
    /\ UNCHANGED <<templates, matchVars, pipeVars, queueVars, structVars, utilVars, backend, statusCall, cacheVars>>

\* the statuses RQ reports for a job; "canceled" stands for those outside status_map
BackendStatuses ==
    {"queued", "started", "finished", "failed", "deferred", "scheduled", "canceled"}

\* a job as Job.fetch returns it
BackendJob(status, exc_info) ==
    [status |-> status, exc_info |-> exc_info,
     created_at |-> "t_created",
     started_at |-> IF status \in {"started", "finished", "failed", "canceled"}
                    THEN "t_started" ELSE NoneStr,
     ended_at |-> IF status \in {"finished", "failed"} THEN "t_ended" ELSE NoneStr,
     result |-> IF status = "finished" THEN "job result" ELSE NoneStr]

\* Redis and the RQ workers: a job appears or changes status, or expires
BackendStep ==
    /\ \E id \in 1 .. MaxStatusJobs :
         \/ \E status \in BackendStatuses, exc_info \in {NoneStr, "Traceback"} :
               /\ exc_info # NoneStr => status = "failed"
               /\ backend' = [i \in DOMAIN backend \cup {id} |->
                                 IF i = id THEN BackendJob(status, exc_info) ELSE backend[i]]
         \/ /\ id \in DOMAIN backend
            /\ backend' = [i \in DOMAIN backend \ {id} |-> backend[i]]
    /\ backend' # backend
    /\ UNCHANGED <<templates, matchVars, pipeVars, queueVars, structVars, utilVars, adapter, factoryCall, statusCall,
                   cacheVars>>

\* status_map.get(job.get_status(), 'unknown') (rq_adapter.py:209-218)
status_map(backend_status) ==
    CASE backend_status = "queued"    -> "queued"
      [] backend_status = "started"   -> "started"
      [] backend_status = "finished"  -> "completed"
      [] backend_status = "failed"    -> "failed"
      [] backend_status = "deferred"  -> "deferred"
      [] backend_status = "scheduled" -> "scheduled"
      [] OTHER -> "unknown"

\* the except clause of get_task_status (rq_adapter.py:236-241)
StatusError(task_id, error) ==
    [task_id |-> task_id, status |-> "error", error |-> error]

\* RQAdapter.get_task_status (rq_adapter.py:195-241): Job.fetch raises for an
\* unknown id and when Redis cannot be reached
get_task_status(jobs_in_redis, task_id, backend_up) ==
    IF ~backend_up THEN StatusError(task_id, "ConnectionError")
    ELSE IF task_id \notin DOMAIN jobs_in_redis THEN StatusError(task_id, "NoSuchJobError")
    ELSE LET job == jobs_in_redis[task_id]
             status == status_map(job.status)
             base == [task_id |-> task_id, status |-> status,
                      created_at |-> job.created_at, started_at |-> job.started_at,
                      ended_at |-> job.ended_at]
         IN  IF status = "completed" THEN base @@ [result |-> job.result]
             ELSE IF status = "failed"
             THEN base @@ [error |-> IF job.exc_info # NoneStr THEN job.exc_info
                                     ELSE "Unknown error"]
             ELSE base

\* one call of get_task_status on the adapter that was handed out
GetTaskStatus ==
    /\ adapter # None
    /\ \E task_id \in StatusJobIds, backend_up \in BOOLEAN :
         statusCall' = [task_id |-> task_id, backend_up |-> backend_up,
                        known |-> task_id \in DOMAIN backend,
                        call |-> Return(get_task_status(backend, task_id, backend_up))]
    /\ UNCHANGED <<templates, matchVars, pipeVars, queueVars, structVars, utilVars, adapter, factoryCall, backend,
                   cacheVars>>

AdapterInit ==
    /\ templates = <<>>
    /\ pc = "start"
    /\ args = [file_path |-> [suffix |-> ".jpg"], queue_item_id |-> QueueItemId,
                calling_app_id |-> "app_a"]
    /\ config = None
    /\ skeleton_config = None
    /\ locals = NoLocals
    /\ raisedAt = {}
    /\ extraction = None
    /\ result = None
    /\ phases = <<>>
    /\ matchCall = None
    /\ jobs = <<>>
    /\ queueCall = None
    /\ AuxIdle

AdapterNext == GetQueueAdapter \/ BackendStep \/ GetTaskStatus

AdapterSpec == AdapterInit /\ [][AdapterNext]_vars

\* the fixed enumeration of statuses
StatusEnumeration == {"queued", "started", "completed", "failed", "deferred", "scheduled"}

\* C11 (as stated): get_task_status, for every job id and every state of the
\* backend, returns a status that is one of queued, started, completed, failed,
\* deferred, scheduled.
\* Violated: for an unknown job id or an unreachable backend the except clause
\* returns status 'error', and a backend status outside status_map is reported
\* as 'unknown'.
C11_StatusIsInEnumeration ==
    statusCall # None =>
        /\ statusCall.call.kind = "return"
        /\ statusCall.call.value.status \in StatusEnumeration

\* the backend name the configuration gives: QUEUE_ADAPTER, else queue.adapter
ConfiguredName ==
    IF factoryCall.env # "" THEN factoryCall.env
    ELSE IF factoryCall.config_read.kind = "return" THEN factoryCall.config_read.value
    ELSE NoneStr

\* the one backend get_queue_adapter can construct, in any letter case
SupportedNames == {"rq", "RQ"}

\* C12: get_queue_adapter with a configured backend name that is not a
\* supported backend raises; the step of a call that raises hands out no
\* adapter object, and get_task_status is only ever called on an adapter that
\* was handed out.
C12_UnsupportedBackendFailsAtConstruction ==
    /\ [](factoryCall # None =>
            ((ConfiguredName \notin SupportedNames \cup {"", NoneStr})
                => factoryCall.call.kind = "raise"))
    /\ [][(factoryCall' # None /\ factoryCall'.call.kind = "raise") => adapter' = adapter]_vars
    /\ [](statusCall # None => adapter # None)

\* C12 witness: the configuration file names a backend that does not exist;
\* the call raised ValueError and there is no adapter object.
C12_Witness ==
    /\ factoryCall # None
    /\ factoryCall.env = ""
    /\ ConfiguredName = "kafka"
    /\ factoryCall.call = Raise("ValueError")
    /\ adapter = None

-----------------------------------------------------------------------------
(* TemplateCache: templates/template_cache.py, one call at a time *)

\* most readings of datetime.utcnow() by cache_template calls
MaxClock == 3

\* what a calling application sends for a template
TemplatePayloads ==
    { [document_type |-> "receipt", vendor |-> "Mead Clark", format_name |-> "thermal_3x12",
       template_data |-> [version |-> "v1"], field_mappings |-> [total |-> "box_1"]],
      [document_type |-> "receipt", vendor |-> "Acme", format_name |-> "letter",
       template_data |-> [version |-> "v2"], field_mappings |-> None] }

\* field_mappings or {} (template_cache.py:147)
OrEmptyDict(value) == IF value = None THEN EmptyDict ELSE value

\* session.query(CachedTemplate).filter(and_(calling_app_id == ..., template_id == ...)).first():
\* the primary key of the first such row, 0 for None
FirstRowId(rows, calling_app_id, template_id) ==
    LET found == SelectSeq(rows, LAMBDA t : t.calling_app_id = calling_app_id
                                           /\ t.template_id = template_id)
    IN  IF Len(found) = 0 THEN 0 ELSE found[1].id

\* the row with a primary key
RowById(rows, id) == CHOOSE t \in {rows[i] : i \in DOMAIN rows} : t.id = id

HasRow(rows, id) == \E i \in DOMAIN rows : rows[i].id = id

\* the update branch (template_cache.py:127-137)
UpdatedRow(existing, payload, now) ==
    [existing EXCEPT !.document_type = payload.document_type,
                     !.vendor = payload.vendor,
                     !.format_name = payload.format_name,
                     !.template_data = payload.template_data,
                     !.field_mappings = payload.field_mappings,
                     !.last_synced_at = now,
                     !.updated_at = now]

\* a variant of the insert that stores a fingerprint with the new row
NewRowWithFingerprint(id, calling_app_id, template_id, payload, now) ==
    [id |-> id, calling_app_id |-> calling_app_id, template_id |-> template_id,
     document_type |-> payload.document_type, vendor |-> payload.vendor,
     format_name |-> payload.format_name, template_data |-> payload.template_data,
     field_mappings |-> IF payload.field_mappings = None THEN EmptyDict
                        ELSE payload.field_mappings,
     structural_fingerprint |-> FpInvoice,
     last_synced_at |-> now, created_at |-> now, updated_at |-> now]

\* the insert branch (template_cache.py:138-152): structural_fingerprint is
\* not set and stays NULL; the primary key is fresh
NewRow(id, calling_app_id, template_id, payload, now) ==
    [id |-> id, calling_app_id |-> calling_app_id, template_id |-> template_id,
     document_type |-> payload.document_type, vendor |-> payload.vendor,
     format_name |-> payload.format_name, template_data |-> payload.template_data,
     field_mappings |-> OrEmptyDict(payload.field_mappings),
     structural_fingerprint |-> None,
     last_synced_at |-> now, created_at |-> now, updated_at |-> now]

\* a variant of the write that always inserts
WriteAlwaysInsert(rows, existing_id, calling_app_id, template_id, payload, now) ==
    Append(rows, NewRow(now, calling_app_id, template_id, payload, now))

\* the table after the commit of cache_template, given what its query found
WriteTemplate(rows, existing_id, calling_app_id, template_id, payload, now) ==
    IF existing_id # 0
    THEN [i \in DOMAIN rows |->
             IF rows[i].id = existing_id THEN UpdatedRow(rows[i], payload, now) ELSE rows[i]]
    ELSE Append(rows, NewRow(now, calling_app_id, template_id, payload, now))

\* datetime.isoformat()
IsoFormat(t) == [iso |-> t]

\* _template_to_dict (template_cache.py:208-220)
template_to_dict(template) ==
    [id |-> template.id, calling_app_id |-> template.calling_app_id,
     template_id |-> template.template_id, document_type |-> template.document_type,
     vendor |-> template.vendor, format_name |-> template.format_name,
     template_data |-> template.template_data, field_mappings |-> template.field_mappings,
     last_synced_at |-> IsoFormat(template.last_synced_at)]

\* if <filter>: a filter that is None or empty is not applied
Truthy(value) == value # NoneStr /\ value # ""

\* a variant of the query that ORs the filters
RowsForContextAnyFilter(rows, calling_app_id, document_type, vendor, format_name) ==
    SelectSeq(rows, LAMBDA t :
        /\ t.calling_app_id = calling_app_id
        /\ \/ ~(Truthy(document_type) \/ Truthy(vendor) \/ Truthy(format_name))
           \/ Truthy(document_type) /\ t.document_type = document_type
           \/ Truthy(vendor) /\ t.vendor = vendor
           \/ Truthy(format_name) /\ t.format_name = format_name)

\* the query of get_templates_for_context (template_cache.py:76-87)
RowsForContext(rows, calling_app_id, document_type, vendor, format_name) ==
    SelectSeq(rows, LAMBDA t :
        /\ t.calling_app_id = calling_app_id
        /\ Truthy(document_type) => t.document_type = document_type
        /\ Truthy(vendor) => t.vendor = vendor
        /\ Truthy(format_name) => t.format_name = format_name)

\* get_templates_for_context (template_cache.py:55-90)
get_templates_for_context(rows, calling_app_id, document_type, vendor, format_name) ==
    LET found == RowsForContext(rows, calling_app_id, document_type, vendor, format_name)
    IN  [i \in DOMAIN found |-> template_to_dict(found[i])]

\* a variant of the purge without the tenant filter
DeleteAllRows(rows, calling_app_id) == <<>>

\* session.query(CachedTemplate).filter(calling_app_id == ...).delete()
DeleteRowsOfApp(rows, calling_app_id) ==
    SelectSeq(rows, LAMBDA t : t.calling_app_id # calling_app_id)

\* the filter values get_templates_for_context is called with
DocumentTypeFilters == {NoneStr, "", "receipt"}
VendorFilters == {NoneStr, "Mead Clark"}
FormatNameFilters == {NoneStr, "letter"}

\* cache_ttl of the TemplateCache object and last_updated, in ticks
Ticks == {0, 2}

\* TemplateCache.cache_template (template_cache.py:92-154), run without another
\* session in between; a failing commit raises and writes nothing
CacheTemplate ==
    /\ clock < MaxClock
    /\ \E calling_app_id \in Tenants, template_id \in TemplateIds,
          payload \in TemplatePayloads, commit_ok \in BOOLEAN :
         LET existing_id == FirstRowId(templates, calling_app_id, template_id)
             now == clock + 1
             written == WriteTemplate(templates, existing_id, calling_app_id, template_id,
                                      payload, now)
         IN  /\ clock' = now
             /\ templates' = IF commit_ok THEN written ELSE templates
             /\ cacheCall' =
                  [op |-> "cache_template", calling_app_id |-> calling_app_id,
                   template_id |-> template_id, payload |-> payload,
                   call |-> IF commit_ok
                            THEN Return(RowById(written, IF existing_id # 0 THEN existing_id
                                                         ELSE now))
                            ELSE Raise("OperationalError")]
    /\ UNCHANGED <<matchVars, pipeVars, queueVars, structVars, utilVars, adapterVars, sessions>>

\* TemplateCache.get_cached_template (template_cache.py:25-53)
GetCachedTemplate ==
    /\ \E calling_app_id \in Tenants, template_id \in TemplateIds :
         LET id == FirstRowId(templates, calling_app_id, template_id)
         IN  cacheCall' =
                [op |-> "get_cached_template", calling_app_id |-> calling_app_id,
                 template_id |-> template_id,
                 call |-> Return(IF id = 0 THEN None
                                 ELSE template_to_dict(RowById(templates, id)))]
    /\ UNCHANGED <<templates, matchVars, pipeVars, queueVars, structVars, utilVars, adapterVars, clock, sessions>>

\* TemplateCache.get_templates_for_context (template_cache.py:55-90)
GetTemplatesForContext ==
    /\ \E calling_app_id \in Tenants, document_type \in DocumentTypeFilters,
          vendor \in VendorFilters, format_name \in FormatNameFilters :
         cacheCall' =
            [op |-> "get_templates_for_context", calling_app_id |-> calling_app_id,
             document_type |-> document_type, vendor |-> vendor, format_name |-> format_name,
             call |-> Return(get_templates_for_context(templates, calling_app_id,
                                                       document_type, vendor, format_name))]
    /\ UNCHANGED <<templates, matchVars, pipeVars, queueVars, structVars, utilVars, adapterVars, clock, sessions>>

\* TemplateCache.is_cache_stale (template_cache.py:156-195)
is_cache_stale(rows, calling_app_id, template_id, last_updated, cache_ttl, now) ==
    LET id == FirstRowId(rows, calling_app_id, template_id)
    IN  IF id = 0 THEN TRUE
        ELSE IF now - RowById(rows, id).last_synced_at > cache_ttl THEN TRUE
        ELSE last_updated > RowById(rows, id).last_synced_at

IsCacheStale ==
    /\ \E calling_app_id \in Tenants, template_id \in TemplateIds,
          last_updated \in Ticks, cache_ttl \in Ticks :
         cacheCall' =
            [op |-> "is_cache_stale", calling_app_id |-> calling_app_id,
             template_id |-> template_id,
             call |-> Return(is_cache_stale(templates, calling_app_id, template_id,
                                            last_updated, cache_ttl, clock))]
    /\ UNCHANGED <<templates, matchVars, pipeVars, queueVars, structVars, utilVars, adapterVars, clock, sessions>>

\* TemplateCache.clear_cache_for_app (template_cache.py:197-206); deleted is
\* the row count delete() reports
ClearCacheForApp ==
    /\ \E calling_app_id \in Tenants, commit_ok \in BOOLEAN :
         LET remaining == DeleteRowsOfApp(templates, calling_app_id)
         IN  /\ templates' = IF commit_ok THEN remaining ELSE templates
             /\ cacheCall' =
                  [op |-> "clear_cache_for_app", calling_app_id |-> calling_app_id,
                   deleted |-> Len(templates) - Len(remaining),
                   call |-> IF commit_ok THEN Return(None) ELSE Raise("OperationalError")]
    /\ UNCHANGED <<matchVars, pipeVars, queueVars, structVars, utilVars, adapterVars, clock, sessions>>

CacheInit ==
    /\ templates = <<>>
    /\ pc = "start"
    /\ args = [file_path |-> [suffix |-> ".jpg"], queue_item_id |-> QueueItemId,
                calling_app_id |-> "app_a"]
    /\ config = None
    /\ skeleton_config = None
    /\ locals = NoLocals
    /\ raisedAt = {}
    /\ extraction = None
    /\ result = None
    /\ phases = <<>>
    /\ matchCall = None
    /\ jobs = <<>>
    /\ queueCall = None
    /\ AuxIdle

CacheNext ==
    \/ CacheTemplate
    \/ GetCachedTemplate
    \/ GetTemplatesForContext
    \/ IsCacheStale
    \/ ClearCacheForApp

CacheSpec == CacheInit /\ [][CacheNext]_vars

\* the positions of the rows of a key
RowsOfKey(rows, calling_app_id, template_id) ==
    {i \in DOMAIN rows : rows[i].calling_app_id = calling_app_id
                         /\ rows[i].template_id = template_id}

RowIds(rows) == {rows[i].id : i \in DOMAIN rows}

\* the step is a call of cache_template that returned
CacheTemplateReturns ==
    /\ clock' # clock
    /\ cacheCall'.op = "cache_template"
    /\ cacheCall'.call.kind = "return"

\* C13: under calls made one after the other there is never more than one row
\* per (tenant, template_id); a cache_template call that returns leaves exactly
\* one row for its key and every other row as it was; on an existing key it adds
\* no row, keeps the row's primary key, replaces document_type, vendor,
\* format_name, template_data and field_mappings by the new values and sets
\* last_synced_at to the time of the call.
C13_UpsertKeepsOneRowPerKey ==
    /\ [](\A i, j \in DOMAIN templates :
            (templates[i].calling_app_id = templates[j].calling_app_id
               /\ templates[i].template_id = templates[j].template_id) => i = j)
    /\ [][CacheTemplateReturns =>
            LET app == cacheCall'.calling_app_id
                tid == cacheCall'.template_id
                payload == cacheCall'.payload
                before == RowsOfKey(templates, app, tid)
                after == RowsOfKey(templates', app, tid)
            IN  /\ Cardinality(after) = 1
                /\ \A i \in DOMAIN templates : i \notin before => templates'[i] = templates[i]
                /\ \A i \in after :
                      /\ templates'[i].document_type = payload.document_type
                      /\ templates'[i].vendor = payload.vendor
                      /\ templates'[i].format_name = payload.format_name
                      /\ templates'[i].template_data = payload.template_data
                      /\ templates'[i].last_synced_at = clock'
                      /\ before # {} =>
                            /\ templates'[i].field_mappings = payload.field_mappings
                            /\ i \in before
                            /\ templates'[i].id = templates[i].id
                /\ Len(templates') = Len(templates) + (IF before = {} THEN 1 ELSE 0)]_vars

\* C13 witness: an existing row was updated by a later call, next to another row.
C13_Witness ==
    /\ cacheCall # None
    /\ cacheCall.op = "cache_template"
    /\ cacheCall.call.kind = "return"
    /\ Len(templates) = 2
    /\ cacheCall.call.value.created_at < cacheCall.call.value.last_synced_at
    /\ cacheCall.call.value.last_synced_at = clock
    /\ cacheCall.call.value.vendor = "Acme"

\* a filter was supplied
Supplied(value) == value # NoneStr /\ value # ""

\* the rows get_templates_for_context has to return
ExpectedForContext ==
    {i \in DOMAIN templates :
        /\ templates[i].calling_app_id = cacheCall.calling_app_id
        /\ Supplied(cacheCall.document_type)
              => templates[i].document_type = cacheCall.document_type
        /\ Supplied(cacheCall.vendor) => templates[i].vendor = cacheCall.vendor
        /\ Supplied(cacheCall.format_name) => templates[i].format_name = cacheCall.format_name}

\* C15: get_templates_for_context returns exactly the tenant's templates that
\* satisfy every supplied (non-empty) filter, each once; with no filter it
\* returns all of the tenant's templates and none of another tenant.
C15_ContextFiltersAreAndCombined ==
    (cacheCall # None /\ cacheCall.op = "get_templates_for_context") =>
        LET returned == cacheCall.call.value
        IN  /\ cacheCall.call.kind = "return"
            /\ Len(returned) = Cardinality(ExpectedForContext)
            /\ {returned[k].id : k \in DOMAIN returned}
                  = {templates[i].id : i \in ExpectedForContext}
            /\ \A k \in DOMAIN returned : returned[k].calling_app_id = cacheCall.calling_app_id

\* C15 witness: with two filters, one row of the tenant is returned while
\* another row of the tenant matches only one filter and a row of another
\* tenant matches both.
C15_Witness ==
    /\ cacheCall # None
    /\ cacheCall.op = "get_templates_for_context"
    /\ cacheCall.calling_app_id = "app_a"
    /\ cacheCall.document_type = "receipt"
    /\ cacheCall.vendor = "Mead Clark"
    /\ cacheCall.format_name = NoneStr
    /\ Len(cacheCall.call.value) = 1
    /\ \E i, j \in DOMAIN templates :
          /\ templates[i].calling_app_id = "app_a"
          /\ templates[i].document_type = "receipt" /\ templates[i].vendor = "Acme"
          /\ templates[j].calling_app_id = "app_b"
          /\ templates[j].document_type = "receipt" /\ templates[j].vendor = "Mead Clark"

\* C16: a clear_cache_for_app call that returns removes every row of its tenant
\* and leaves the rows of the other tenants as they were, and a step of any
\* other TemplateCache method removes no row.
C16_OnlyTenantPurgeRemovesRows ==
    /\ [][(cacheCall'.op = "clear_cache_for_app" /\ cacheCall'.call.kind = "return") =>
            templates' = SelectSeq(templates,
                            LAMBDA t : t.calling_app_id # cacheCall'.calling_app_id)]_vars
    /\ [][(~(RowIds(templates) \subseteq RowIds(templates'))) =>
            /\ cacheCall'.op = "clear_cache_for_app"
            /\ cacheCall'.call.kind = "return"]_vars

\* C16 witness: a purge removed rows of its tenant and a row of another tenant is
\* still there.
C16_Witness ==
    /\ cacheCall # None
    /\ cacheCall.op = "clear_cache_for_app"
    /\ cacheCall.call.kind = "return"
    /\ cacheCall.deleted = 2
    /\ Len(templates) = 1
    /\ templates[1].calling_app_id # cacheCall.calling_app_id

-----------------------------------------------------------------------------
(* TemplateCache.cache_template called concurrently: each call has a session
   of its own (database/models.py:98-102), and the table has no unique
   constraint on (calling_app_id, template_id) (database/models.py:36-38) *)

\* most concurrent callers of cache_template
MaxCacheCallers == 2

CacheCallers == 1 .. MaxCacheCallers

\* the tenant whose templates the concurrent callers sync
RaceTenant == "app_a"

\* template_cache.py:117-125: the call opens its session and queries the
\* existing row
CacheTemplateQuery(caller) ==
    /\ caller \notin DOMAIN sessions
    /\ clock + Cardinality(DOMAIN sessions) < MaxClock
    /\ \E template_id \in TemplateIds, payload \in TemplatePayloads :
         sessions' = [c \in DOMAIN sessions \cup {caller} |->
                         IF c = caller
                         THEN [calling_app_id |-> RaceTenant, template_id |-> template_id,
                               payload |-> payload,
                               existing_id |-> FirstRowId(templates, RaceTenant, template_id)]
                         ELSE sessions[c]]
    /\ UNCHANGED <<templates, matchVars, pipeVars, queueVars, structVars, utilVars, adapterVars, cacheCall, clock>>

\* template_cache.py:127-154: update of the row found, or insert, and commit
CacheTemplateCommit(caller) ==
    /\ caller \in DOMAIN sessions
    /\ LET session == sessions[caller]
           now == clock + 1
           written == WriteTemplate(templates, session.existing_id, session.calling_app_id,
                                    session.template_id, session.payload, now)
       IN  /\ clock' = now
           /\ templates' = written
           /\ cacheCall' =
                [op |-> "cache_template", calling_app_id |-> session.calling_app_id,
                 template_id |-> session.template_id, payload |-> session.payload,
                 call |-> Return(RowById(written, IF session.existing_id # 0
                                                  THEN session.existing_id ELSE now))]
    /\ sessions' = [c \in DOMAIN sessions \ {caller} |-> sessions[c]]
    /\ UNCHANGED <<matchVars, pipeVars, queueVars, structVars, utilVars, adapterVars>>

CacheRaceInit ==
    /\ templates = <<>>
    /\ pc = "start"
    /\ args = [file_path |-> [suffix |-> ".jpg"], queue_item_id |-> QueueItemId,
                calling_app_id |-> "app_a"]
    /\ config = None
    /\ skeleton_config = None
    /\ locals = NoLocals
    /\ raisedAt = {}
    /\ extraction = None
    /\ result = None
    /\ phases = <<>>
    /\ matchCall = None
    /\ jobs = <<>>
    /\ queueCall = None
    /\ AuxIdle

CacheRaceNext ==
    \E caller \in CacheCallers :
        \/ CacheTemplateQuery(caller)
        \/ CacheTemplateCommit(caller)

CacheRaceSpec == CacheRaceInit /\ [][CacheRaceNext]_vars

\* the row holds what one call of cache_template sent
FromOneCall(row) ==
    \E payload \in TemplatePayloads :
        /\ row.document_type = payload.document_type
        /\ row.vendor = payload.vendor
        /\ row.format_name = payload.format_name
        /\ row.template_data = payload.template_data
        /\ row.field_mappings \in {payload.field_mappings, OrEmptyDict(payload.field_mappings)}

\* C14 (as stated): under every interleaving of concurrent cache_template calls
\* for the same (tenant, template_id), once the calls have committed the table
\* holds exactly one row for that key, and that row's fields all come from a
\* single call.
\* Violated: two calls that both query before either commits both find no row
\* and both insert; nothing in the table forbids the second row.
C14_ConcurrentUpsertsLeaveOneRow ==
    (DOMAIN sessions = {} /\ cacheCall # None) =>
        \A i, j \in DOMAIN templates :
            /\ FromOneCall(templates[i])
            /\ (templates[i].calling_app_id = templates[j].calling_app_id
                  /\ templates[i].template_id = templates[j].template_id) => i = j

-----------------------------------------------------------------------------
(* process_document_task run again for the same queue_item_id *)

\* most runs of process_document_task for one queue_item_id
MaxRuns == 2

\* Path(file_path).suffix of the file a run is given
SourceSuffixes == {".jpg", ".png", ""}

\* the cached_templates table of a tenant without templates, and of one whose
\* template matches the document
RerunTables == {t \in Tables(MaxPipelineTemplates) :
                  \A i \in DOMAIN t : /\ t[i].calling_app_id = "app_a"
                                       /\ t[i].structural_fingerprint # None}

\* the task of a document is enqueued again after its run returned or raised:
\* a new call of process_document_task(file_path, queue_item_id, calling_app_id)
\* with fresh local variables, into the directory the earlier run left
\* (utils/file_utils.py:53-68, os.makedirs(..., exist_ok=True))
Rerun ==
    /\ pc \in {"done", "raised"}
    /\ runs < MaxRuns
    /\ runs' = runs + 1
    /\ \E suffix \in SourceSuffixes : args' = [args EXCEPT !.file_path = [suffix |-> suffix]]
    /\ pc' = "start"
    /\ config' = None
    /\ skeleton_config' = None
    /\ locals' = NoLocals
    /\ raisedAt' = {}
    /\ extraction' = None
    /\ result' = None
    /\ phases' = <<>>
    /\ UNCHANGED <<templates, files, matchVars, queueVars, auxVars>>

RerunInit ==
    /\ templates \in RerunTables
    /\ pc = "start"
    /\ args = [file_path |-> [suffix |-> ".jpg"], queue_item_id |-> QueueItemId,
                calling_app_id |-> "app_a"]
    /\ config = None
    /\ skeleton_config = None
    /\ locals = NoLocals
    /\ raisedAt = {}
    /\ extraction = None
    /\ result = None
    /\ phases = <<>>
    /\ matchCall = None
    /\ jobs = <<>>
    /\ queueCall = None
    /\ AuxIdle

RerunNext ==
    \/ GetConfig
    \/ SaveOriginal
    \/ Preprocess
    \/ MatchStep
    \/ LoadBestMatch
    \/ Decide
    \/ Rerun

RerunSpec == RerunInit /\ [][RerunNext]_vars

\* the files the paths of the latest run name: original_path, preprocessed_path,
\* comparison_path and the visualization_path of its match result
LatestRunFiles ==
    LET paths == {locals.original_path, locals.preprocessed_path, locals.comparison_path,
                  IF locals.match_result = None THEN None
                  ELSE locals.match_result.visualization_path}
    IN  {p.file : p \in paths \ {None}}

\* C17: when a run of process_document_task for a document id has returned
\* without failing, the queue item directory holds exactly the files that run
\* wrote, whatever earlier runs for the same id left there.
C17_RerunLeavesOnlyLatestArtifacts ==
    (Returned /\ result.status # "failed") => files = LatestRunFiles

-----------------------------------------------------------------------------
(* Stand-alone calls of compare_fingerprints: matching/structural.py:151-263 *)

\* most zones of a fingerprint given to compare_fingerprints
MaxZones == 2

\* the zones the compared fingerprints are made of: two of them of one type
ZoneSamples ==
    {Zone("header", 50, 50, 900, 100, 90),
     Zone("table", 50, 250, 900, 400, 360),
     Zone("other", 100, 400, 300, 300, 90),
     Zone("other", 600, 900, 300, 50, 15)}

\* total_content_area_ratio of the compared fingerprints
ContentAreaSamples == {0, 500}

\* the dicts compare_fingerprints is called with
ComparedFingerprints ==
    {Fingerprint(zones, area) : zones \in SeqsUpTo(ZoneSamples, MaxZones),
                                area \in ContentAreaSamples}

\* one call compare_fingerprints(fingerprint1, fingerprint2); the function keeps
\* no state, so one call per behaviour covers every call
CompareFingerprints ==
    /\ compareCall = None
    /\ \E fingerprint1 \in ComparedFingerprints, fingerprint2 \in ComparedFingerprints :
         compareCall' = [fingerprint1 |-> fingerprint1, fingerprint2 |-> fingerprint2,
                         score |-> compare_fingerprints(fingerprint1, fingerprint2)]
    /\ UNCHANGED <<templates, matchVars, pipeVars, queueVars, adapterVars, cacheVars, utilVars,
                   fingerprintCall>>

CompareInit ==
    /\ templates = <<>>
    /\ pc = "start"
    /\ args = [file_path |-> [suffix |-> ".jpg"], queue_item_id |-> QueueItemId,
                calling_app_id |-> "app_a"]
    /\ config = None
    /\ skeleton_config = None
    /\ locals = NoLocals
    /\ raisedAt = {}
    /\ extraction = None
    /\ result = None
    /\ phases = <<>>
    /\ matchCall = None
    /\ jobs = <<>>
    /\ queueCall = None
    /\ AuxIdle

CompareNext == CompareFingerprints

CompareSpec == CompareInit /\ [][CompareNext]_vars

NoZones(fingerprint) == Len(fingerprint.zones) = 0

\* C18: compare_fingerprints returns 1.0 when both fingerprints have no zones
\* and 0.0 when exactly one of them has none, whichever argument the
\* empty one is.
C18_EmptyFingerprintScores ==
    compareCall # None =>
        /\ (NoZones(compareCall.fingerprint1) /\ NoZones(compareCall.fingerprint2))
              => compareCall.score = One
        /\ (NoZones(compareCall.fingerprint1) # NoZones(compareCall.fingerprint2))
              => compareCall.score = 0

\* an empty fingerprint was compared with a non-empty one, as second argument
C18_Witness ==
    /\ compareCall # None
    /\ ~NoZones(compareCall.fingerprint1)
    /\ NoZones(compareCall.fingerprint2)
    /\ compareCall.score = 0

\* C19: a fingerprint with at least one zone compared with itself scores at
\* least 0.99, and every score compare_fingerprints returns is in [0, 1].
C19_SelfScoreAndRange ==
    compareCall # None =>
        /\ compareCall.score >= 0
        /\ compareCall.score <= One
        /\ (compareCall.fingerprint1 = compareCall.fingerprint2
            /\ ~NoZones(compareCall.fingerprint1))
              => compareCall.score >= 990

\* a fingerprint with two zones of one type at different places was compared
\* with itself
C19_Witness ==
    /\ compareCall # None
    /\ compareCall.fingerprint1 = compareCall.fingerprint2
    /\ Len(compareCall.fingerprint1.zones) = 2
    /\ compareCall.fingerprint1.zones[1].type = compareCall.fingerprint1.zones[2].type
    /\ compareCall.fingerprint1.zones[1] # compareCall.fingerprint1.zones[2]
    /\ compareCall.score >= 990

-----------------------------------------------------------------------------
(* compute_structural_fingerprint: matching/structural.py:14-149 *)

\* most contours cv2.findContours reports for an image
MaxContours == 3

\* h, w = image.shape[:2] (line 45), in pixels: one pixel is one hundredth of
\* a side, and the sampled areas are whole thousandths of the image area, so
\* every ratio below is exact
ImageWidth == 100
ImageHeight == 100

\* what cv2.boundingRect and cv2.contourArea give for a contour (lines 76-77)
Contour(x, y, zone_w, zone_h, area) ==
    [x |-> x, y |-> y, zone_w |-> zone_w, zone_h |-> zone_h, area |-> area]

\* the contours an image can hold: a header, a table and a footer band, a
\* table band starting at y = 0.2, a band at y = 0.7, a logo, a thin rule
\* below the noise floor, and a frame around the page
ContourSamples ==
    {Contour(5, 5, 90, 10, 800),
     Contour(5, 25, 90, 40, 3400),
     Contour(5, 80, 90, 10, 800),
     Contour(5, 20, 90, 40, 3400),
     Contour(5, 70, 90, 10, 800),
     Contour(5, 10, 15, 15, 190),
     Contour(5, 15, 90, 1, 0),
     Contour(0, 0, 100, 100, 9800)}

\* the bounding boxes of two contours share a pixel
BoxesOverlap(c1, c2) ==
    /\ c1.x < c2.x + c2.zone_w /\ c2.x < c1.x + c1.zone_w
    /\ c1.y < c2.y + c2.zone_h /\ c2.y < c1.y + c1.zone_h

\* what cv2.findContours(binary, RETR_EXTERNAL, CHAIN_APPROX_SIMPLE) can
\* report (line 56): outer contours of separate components, each inside the
\* image, with the polygon area through the border pixel centres no larger
\* than that of its bounding box; here the components have separate boxes
Detectable(contours) ==
    /\ \A i \in DOMAIN contours :
         LET c == contours[i]
         IN  /\ c.x >= 0 /\ c.y >= 0 /\ c.zone_w >= 1 /\ c.zone_h >= 1
             /\ c.x + c.zone_w <= ImageWidth /\ c.y + c.zone_h <= ImageHeight
             /\ c.area >= 0 /\ c.area <= (c.zone_w - 1) * (c.zone_h - 1)
    /\ \A i, j \in DOMAIN contours : i # j => ~BoxesOverlap(contours[i], contours[j])

\* x / w for pixel counts, in thousandths
Ratio(n, d) == (n * One) \div d

\* a variant of _classify_zone whose table rule excludes y_ratio = 0.2
ClassifyZoneStrictTable(y_ratio, height_ratio, width_ratio, area_ratio) ==
    IF y_ratio < 200 /\ width_ratio > 500 /\ height_ratio < 300 THEN "header"
    ELSE IF y_ratio > 700 /\ width_ratio > 500 /\ height_ratio < 300 THEN "footer"
    ELSE IF 200 < y_ratio /\ y_ratio <= 700 /\ width_ratio > 600 /\ height_ratio > 300
            /\ area_ratio > 100 THEN "table"
    ELSE IF y_ratio < 300 /\ area_ratio < 50 /\ Abs(width_ratio - height_ratio) < 100
    THEN "logo"
    ELSE "other"

\* structural.py:122-149
classify_zone(y_ratio, height_ratio, width_ratio, area_ratio) ==
    IF y_ratio < 200 /\ width_ratio > 500 /\ height_ratio < 300 THEN "header"
    ELSE IF y_ratio > 700 /\ width_ratio > 500 /\ height_ratio < 300 THEN "footer"
    ELSE IF 200 <= y_ratio /\ y_ratio <= 700 /\ width_ratio > 600 /\ height_ratio > 300
            /\ area_ratio > 100 THEN "table"
    ELSE IF y_ratio < 300 /\ area_ratio < 50 /\ Abs(width_ratio - height_ratio) < 100
    THEN "logo"
    ELSE "other"

\* a variant of the noise test that lets every contour through
NeverNoise(contour) == FALSE

\* area < min_area, min_area = (w * h) * 0.001 (lines 73, 80-81)
IsNoise(contour) == contour.area * One < ImageWidth * ImageHeight

\* the zone dict of a contour (lines 85-103)
ZoneOfContour(contour) ==
    LET x_ratio == Ratio(contour.x, ImageWidth)
        y_ratio == Ratio(contour.y, ImageHeight)
        width_ratio == Ratio(contour.zone_w, ImageWidth)
        height_ratio == Ratio(contour.zone_h, ImageHeight)
        area_ratio == Ratio(contour.area, ImageWidth * ImageHeight)
    IN  Zone(classify_zone(y_ratio, height_ratio, width_ratio, area_ratio),
             x_ratio, y_ratio, width_ratio, height_ratio, area_ratio)

\* zones.sort(key=lambda z: z['y_ratio']) (line 106): list.sort is stable
RECURSIVE SortByYRatio(_)
SortByYRatio(zones) ==
    IF zones = <<>> THEN <<>>
    ELSE LET last == zones[Len(zones)]
             front == SortByYRatio(SubSeq(zones, 1, Len(zones) - 1))
         IN  SelectSeq(front, LAMBDA z : z.y_ratio <= last.y_ratio) \o <<last>>
             \o SelectSeq(front, LAMBDA z : z.y_ratio > last.y_ratio)

\* the loop over the contours (lines 75-103): zones in contour order
RECURSIVE ZonesOfContours(_)
ZonesOfContours(contours) ==
    IF contours = <<>> THEN <<>>
    ELSE IF IsNoise(Head(contours)) THEN ZonesOfContours(Tail(contours))
    ELSE <<ZoneOfContour(Head(contours))>> \o ZonesOfContours(Tail(contours))

\* total_content_area: the areas of the contours that are not noise (line 83)
RECURSIVE TotalContentArea(_)
TotalContentArea(contours) ==
    IF contours = <<>> THEN 0
    ELSE (IF IsNoise(Head(contours)) THEN 0 ELSE Head(contours).area)
         + TotalContentArea(Tail(contours))

\* structural.py:14-116, from the contours cv2.findContours found in the image
compute_structural_fingerprint(contours) ==
    IF Len(contours) = 0 THEN FpEmpty
    ELSE Fingerprint(SortByYRatio(ZonesOfContours(contours)),
                     Ratio(TotalContentArea(contours), ImageWidth * ImageHeight))

\* one call compute_structural_fingerprint(image); the function keeps no state,
\* so one call per behaviour covers every call
ComputeStructuralFingerprint ==
    /\ fingerprintCall = None
    /\ \E contours \in {cs \in SeqsUpTo(ContourSamples, MaxContours) : Detectable(cs)} :
         fingerprintCall' = [contours |-> contours,
                             fingerprint |-> compute_structural_fingerprint(contours)]
    /\ UNCHANGED <<templates, matchVars, pipeVars, queueVars, adapterVars, cacheVars, utilVars,
                   compareCall>>

FingerprintInit ==
    /\ templates = <<>>
    /\ pc = "start"
    /\ args = [file_path |-> [suffix |-> ".jpg"], queue_item_id |-> QueueItemId,
                calling_app_id |-> "app_a"]
    /\ config = None
    /\ skeleton_config = None
    /\ locals = NoLocals
    /\ raisedAt = {}
    /\ extraction = None
    /\ result = None
    /\ phases = <<>>
    /\ matchCall = None
    /\ jobs = <<>>
    /\ queueCall = None
    /\ AuxIdle

FingerprintNext == ComputeStructuralFingerprint

FingerprintSpec == FingerprintInit /\ [][FingerprintNext]_vars

\* the rules of the specification, one per type, on the ratios of a region
HeaderLike(r) == r.y_ratio < 200 /\ r.width_ratio > 500 /\ r.height_ratio < 300
FooterLike(r) == r.y_ratio > 700 /\ r.width_ratio > 500 /\ r.height_ratio < 300
TableLike(r) == /\ 200 <= r.y_ratio /\ r.y_ratio <= 700 /\ r.width_ratio > 600
                /\ r.height_ratio > 300 /\ r.area_ratio > 100
LogoLike(r) == /\ r.y_ratio < 300 /\ r.area_ratio < 50
               /\ Abs(r.width_ratio - r.height_ratio) < 100

\* the types whose rule a region meets, "other" when it meets none
TypesByRule(r) ==
    LET named == {t \in {"header", "footer", "table", "logo"} :
                    \/ t = "header" /\ HeaderLike(r)
                    \/ t = "footer" /\ FooterLike(r)
                    \/ t = "table" /\ TableLike(r)
                    \/ t = "logo" /\ LogoLike(r)}
    IN  IF named = {} THEN {"other"} ELSE named

\* the ratios of the contours of the call that are at or above the noise floor
SurvivingRegions ==
    LET kept == SelectSeq(fingerprintCall.contours,
                          LAMBDA c : c.area * One >= ImageWidth * ImageHeight)
    IN  [i \in DOMAIN kept |->
            [x_ratio |-> Ratio(kept[i].x, ImageWidth),
             y_ratio |-> Ratio(kept[i].y, ImageHeight),
             width_ratio |-> Ratio(kept[i].zone_w, ImageWidth),
             height_ratio |-> Ratio(kept[i].zone_h, ImageHeight),
             area_ratio |-> Ratio(kept[i].area, ImageWidth * ImageHeight)]]

\* the same zones, whatever their order: a bijection between the positions
SameZones(zones, regions) ==
    /\ Len(zones) = Len(regions)
    /\ \E perm \in [DOMAIN zones -> DOMAIN regions] :
         /\ \A i, j \in DOMAIN zones : i # j => perm[i] # perm[j]
         /\ \A i \in DOMAIN zones :
               /\ [f \in DOMAIN regions[perm[i]] |-> zones[i][f]] = regions[perm[i]]
               /\ TypesByRule(regions[perm[i]]) = {zones[i].type}

\* the regions of the call are one header-like, one table-like and one
\* footer-like region, in any contour order
HeaderTableFooter ==
    /\ Len(SurvivingRegions) = 3
    /\ Len(fingerprintCall.contours) = 3
    /\ \E h, t, f \in DOMAIN SurvivingRegions :
         /\ HeaderLike(SurvivingRegions[h])
         /\ TableLike(SurvivingRegions[t])
         /\ FooterLike(SurvivingRegions[f])

\* C20: every region at or above the noise floor becomes one zone whose type
\* is the one type the rules of the specification give it, the zones are in
\* ascending y_ratio, zone_count is their number, and a header-like, a
\* table-like and a footer-like region give three zones of the types header,
\* table, footer in that order.
C20_ZonesClassifiedAndSorted ==
    fingerprintCall # None =>
        LET fingerprint == fingerprintCall.fingerprint
            zones == fingerprint.zones
        IN  /\ fingerprint.zone_count = Len(zones)
            /\ \A i, j \in DOMAIN zones : i < j => zones[i].y_ratio <= zones[j].y_ratio
            /\ SameZones(zones, SurvivingRegions)
            /\ HeaderTableFooter =>
                  /\ fingerprint.zone_count = 3
                  /\ [i \in DOMAIN zones |-> zones[i].type] = <<"header", "table", "footer">>

\* a footer-like, a header-like and a table-like region, with the table band
\* starting at y = 0.2 and the contours not in y order, gave header, table, footer
C20_Witness ==
    /\ fingerprintCall # None
    /\ HeaderTableFooter
    /\ fingerprintCall.contours[1].y > fingerprintCall.contours[2].y
    /\ \E i \in DOMAIN fingerprintCall.contours : fingerprintCall.contours[i].y = 20
    /\ [i \in 1 .. 3 |-> fingerprintCall.fingerprint.zones[i].type]
         = <<"header", "table", "footer">>

RECURSIVE SumOfAreas(_)
SumOfAreas(contours) ==
    IF contours = <<>> THEN 0 ELSE Head(contours).area + SumOfAreas(Tail(contours))

InUnit(ratio) == 0 <= ratio /\ ratio <= One

\* C21: every ratio of every zone and total_content_area_ratio lie in [0, 1],
\* and a contour below 0.1% of the image area gives no zone and adds nothing
\* to the content area: the zones are as many as the contours at or above the
\* floor, and the content area is the sum of their areas.
C21_RatiosInUnitIntervalNoiseDropped ==
    fingerprintCall # None =>
        LET fingerprint == fingerprintCall.fingerprint
            zones == fingerprint.zones
            kept == SelectSeq(fingerprintCall.contours,
                              LAMBDA c : c.area * One >= ImageWidth * ImageHeight)
        IN  /\ \A i \in DOMAIN zones :
                  /\ InUnit(zones[i].x_ratio) /\ InUnit(zones[i].y_ratio)
                  /\ InUnit(zones[i].width_ratio) /\ InUnit(zones[i].height_ratio)
                  /\ InUnit(zones[i].area_ratio)
            /\ InUnit(fingerprint.total_content_area_ratio)
            /\ Len(zones) = Len(kept)
            /\ fingerprint.total_content_area_ratio
                  = Ratio(SumOfAreas(kept), ImageWidth * ImageHeight)

\* a call on two contours above the noise floor and one below it
C21_Witness ==
    /\ fingerprintCall # None
    /\ Len(fingerprintCall.contours) = 3
    /\ Len(fingerprintCall.fingerprint.zones) = 2
    /\ fingerprintCall.fingerprint.total_content_area_ratio > 0

-----------------------------------------------------------------------------
(* ConfidenceScorer: confidence_scorer.py *)

\* most entries of the per-token confidence list of an OCR result
MaxTokens == 2
\* most line items among the extracted fields
MaxLineItems == 2

\* Python values by type; num is the number a str parses to
PyNone == [type |-> "NoneType"]
PyInt(n) == [type |-> "int", num |-> n]
PyFloat(n) == [type |-> "float", num |-> n]
PyDecimal(n) == [type |-> "Decimal", num |-> n]
PyNumStr(n) == [type |-> "str", parses |-> TRUE, num |-> n]
PyStr(text) == [type |-> "str", parses |-> FALSE, text |-> text]
PyList(items) == [type |-> "list", items |-> items]

\* the entries of data['conf'] as pytesseract hands them out: numbers, or
\* strings with older releases, and -1 ('-1') for a row that is not a word
ConfEntries == {PyInt(-1), PyNumStr(-1), PyInt(0), PyInt(96), PyNumStr(100)}

\* ocr_data: {} or the dict of pytesseract.image_to_data with or without the
\* keys 'conf' and 'text' (ocr_processor.py:81-95)
OcrDatas ==
    {EmptyDict}
    \cup {Entry(has_conf, "conf", conf) @@ Entry(has_text, "text", text) @@ ("level" :> <<1>>) :
            has_conf \in BOOLEAN, has_text \in BOOLEAN,
            conf \in SeqsUpTo(ConfEntries, MaxTokens), text \in {<<>>, <<"TOTAL">>}}

\* conf != '-1' (line 85): only the string '-1' equals '-1'
IsMinusOneString(conf) == conf.type = "str" /\ conf.parses /\ conf.num = -1

RECURSIVE SumNums(_)
SumNums(values) == IF values = <<>> THEN 0 ELSE Head(values).num + SumNums(Tail(values))

\* confidence_scorer.py:74-96, in thousandths: avg_conf / 100.0 for
\* confidences on the scale 0-100
calculate_ocr_quality(ocr_data) ==
    IF ocr_data = EmptyDict THEN 0
    ELSE LET confidences == IF "conf" \in DOMAIN ocr_data
                            THEN SelectSeq(ocr_data["conf"], LAMBDA c : ~IsMinusOneString(c))
                            ELSE <<>>
         IN  IF confidences # <<>>
             THEN (SumNums(confidences) * 10) \div Len(confidences)
             ELSE IF "text" \in DOMAIN ocr_data /\ ocr_data["text"] # <<>> THEN 600
             ELSE 0

\* format_template.required_fields and optional_fields (formats/base_format.py:17-18)
FormatTemplates ==
    {[required_fields |-> <<>>, optional_fields |-> <<>>],
     [required_fields |-> <<>>, optional_fields |-> <<"subtotal">>],
     [required_fields |-> <<"receipt_date", "total_amount">>, optional_fields |-> <<"subtotal">>]}

\* field in fields and fields[field] is not None
Extracted(fields, field) == field \in DOMAIN fields /\ fields[field] # PyNone

CountExtracted(fields, names) ==
    Cardinality({i \in DOMAIN names : Extracted(fields, names[i])})

\* formats/base_format.py:64-80
get_field_extraction_rate(format_template, fields) ==
    IF format_template.required_fields = <<>> THEN One
    ELSE (CountExtracted(fields, format_template.required_fields) * One)
         \div Len(format_template.required_fields)

\* confidence_scorer.py:98-122
calculate_field_extraction_score(extracted_fields, format_template) ==
    IF format_template.required_fields = <<>> THEN One
    ELSE LET extraction_rate == get_field_extraction_rate(format_template, extracted_fields)
             optional_extracted == CountExtracted(extracted_fields,
                                                  format_template.optional_fields)
             optional_bonus == IF format_template.optional_fields # <<>>
                               THEN (optional_extracted * 100)
                                    \div Len(format_template.optional_fields)
                               ELSE 0
         IN  Min2(One, extraction_rate + optional_bonus)

\* confidence_scorer.py:124-146
calculate_pattern_matching_score(extracted_fields, format_template) ==
    IF "format_detection_confidence" \in DOMAIN extracted_fields
    THEN extracted_fields["format_detection_confidence"].num
    ELSE IF format_template.required_fields # <<>>
    THEN (CountExtracted(extracted_fields, format_template.required_fields) * One)
         \div Len(format_template.required_fields)
    ELSE 800

\* re.match(r'^\d{4}-\d{2}-\d{2}$', date_str) on the sampled strings (lines 185-189)
is_valid_date_format(date_str) == date_str.text \in {"2025-12-23", "2025-99-99"}

\* confidence_scorer.py:191-202: numbers are valid when >= 0, a str is valid
\* when Decimal(value) parses, anything else is not valid
is_valid_currency(value) ==
    IF value.type \in {"int", "float", "Decimal"} THEN value.num >= 0
    ELSE IF value.type = "str" THEN value.parses
    ELSE FALSE

\* confidence_scorer.py:204-207
is_valid_line_item(item) ==
    /\ Extracted(item, "description")
    /\ Extracted(item, "line_total")

\* bool(value) of Python for the sampled values
PyTruthy(value) ==
    /\ value # PyNone
    /\ value.type = "list" => value.items # <<>>
    /\ (value.type = "str" /\ ~value.parses) => value.text # ""

\* the issues counted by _calculate_validation_score (lines 155-178)
ValidationIssues(extracted_fields) ==
    LET date_issues ==
            IF /\ "receipt_date" \in DOMAIN extracted_fields
               /\ PyTruthy(extracted_fields["receipt_date"])
               /\ ~is_valid_date_format(extracted_fields["receipt_date"])
            THEN 1 ELSE 0
        currency_issues ==
            Cardinality({field \in {"total_amount", "subtotal", "tax_amount"} :
                            /\ Extracted(extracted_fields, field)
                            /\ ~is_valid_currency(extracted_fields[field])})
        items == IF /\ "line_items" \in DOMAIN extracted_fields
                    /\ PyTruthy(extracted_fields["line_items"])
                    /\ extracted_fields["line_items"].type = "list"
                 THEN extracted_fields["line_items"].items ELSE <<>>
        item_issues == Cardinality({i \in DOMAIN items : ~is_valid_line_item(items[i])})
    IN  date_issues + currency_issues + item_issues

\* confidence_scorer.py:148-183: max(0.0, 1.0 - issues * 0.1)
calculate_validation_score(extracted_fields) ==
    Max2(0, One - ValidationIssues(extracted_fields) * 100)

\* self.weights (lines 20-25)
Weights == [ocr_quality |-> 300, field_extraction |-> 400, pattern_matching |-> 200,
            data_validation |-> 100]

\* the four component scores (lines 44-64)
ComponentScores(ocr_data, extracted_fields, format_template) ==
    [ocr_quality |-> calculate_ocr_quality(ocr_data),
     field_extraction |-> calculate_field_extraction_score(extracted_fields, format_template),
     pattern_matching |-> calculate_pattern_matching_score(extracted_fields, format_template),
     data_validation |-> calculate_validation_score(extracted_fields)]

\* the weighted sum (lines 66-70)
TotalConfidence(scores) ==
    (scores.ocr_quality * Weights.ocr_quality
     + scores.field_extraction * Weights.field_extraction
     + scores.pattern_matching * Weights.pattern_matching
     + scores.data_validation * Weights.data_validation) \div One

\* a variant of the return statement without the clamp
Unclamped(total_confidence) == total_confidence

\* min(1.0, max(0.0, total_confidence)) (line 72)
ClampConfidence(total_confidence) == Min2(One, Max2(0, total_confidence))

\* confidence_scorer.py:27-72
calculate_confidence(ocr_data, extracted_fields, format_template) ==
    ClampConfidence(TotalConfidence(ComponentScores(ocr_data, extracted_fields,
                                                    format_template)))

\* confidences in millionths, where 0.849999 and 0.85 differ
HIGH_THRESHOLD == 850000
MEDIUM_THRESHOLD == 700000

\* a variant of get_confidence_level whose high band starts above the threshold
ConfidenceLevelStrict(confidence) ==
    IF confidence > HIGH_THRESHOLD THEN "high"
    ELSE IF confidence >= MEDIUM_THRESHOLD THEN "medium"
    ELSE "low"

\* confidence_scorer.py:209-224, on a confidence in millionths
get_confidence_level(confidence) ==
    IF confidence >= HIGH_THRESHOLD THEN "high"
    ELSE IF confidence >= MEDIUM_THRESHOLD THEN "medium"
    ELSE "low"

\* the confidences get_confidence_level is asked about, in millionths
ConfidenceSamples ==
    {0, 699999, 700000, 700001, 849999, 850000, 850001, 1000000}
    \cup {k * 50000 : k \in 0 .. 20}

\* the dicts a line item can be
LineItemSamples ==
    {("description" :> PyStr("2x4 stud")) @@ ("line_total" :> PyDecimal(1250)),
     ("line_total" :> PyDecimal(1250)),
     ("description" :> PyStr("2x4 stud")) @@ ("line_total" :> PyNone)}

\* the values a currency field can hold
CurrencySamples ==
    {PyNone, PyDecimal(1250), PyDecimal(-500), PyNumStr(1250), PyNumStr(-1250),
     PyStr("12,50"), PyFloat(-100), PyList(<<>>)}

\* extracted_fields: what format_template.extract_fields returned, with the
\* detection confidence the extractor adds (extractors/document_extractor.py:75-80)
ExtractedFields ==
    {Entry(has_fdc, "format_detection_confidence", fdc)
     @@ Entry(has_date, "receipt_date", receipt_date)
     @@ Entry(has_total, "total_amount", total_amount)
     @@ Entry(has_subtotal, "subtotal", PyDecimal(-500))
     @@ Entry(has_tax, "tax_amount", PyStr("n/a"))
     @@ Entry(has_items, "line_items", line_items) :
        has_fdc \in BOOLEAN, fdc \in {PyFloat(600), PyFloat(1200)},
        has_date \in BOOLEAN,
        receipt_date \in {PyNone, PyStr(""), PyStr("2025-12-23"), PyStr("12/23/2025")},
        has_total \in BOOLEAN, total_amount \in CurrencySamples,
        has_subtotal \in BOOLEAN, has_tax \in BOOLEAN,
        has_items \in BOOLEAN,
        line_items \in {PyNone} \cup {PyList(items) :
                                        items \in SeqsUpTo(LineItemSamples, MaxLineItems)}}

\* the OCR results calculate_confidence is called with
OcrDataSamples ==
    {EmptyDict,
     ("conf" :> <<PyInt(100)>>) @@ ("text" :> <<"TOTAL">>),
     ("conf" :> <<PyInt(-1)>>) @@ ("text" :> <<"TOTAL">>),
     ("text" :> <<"TOTAL">>)}

\* one call of calculate_confidence; the scorer keeps no state between calls,
\* so one call per behaviour covers every call
CalculateConfidence ==
    /\ scorerCall = None
    /\ \E ocr_data \in OcrDataSamples, extracted_fields \in ExtractedFields,
          format_template \in FormatTemplates :
         scorerCall' =
            [method |-> "calculate_confidence",
             ocr_data |-> ocr_data, extracted_fields |-> extracted_fields,
             format_template |-> format_template,
             scores |-> ComponentScores(ocr_data, extracted_fields, format_template),
             value |-> calculate_confidence(ocr_data, extracted_fields, format_template)]
    /\ UNCHANGED <<templates, matchVars, pipeVars, queueVars, adapterVars, cacheVars,
                   structVars, cropCall>>

\* one call of _calculate_ocr_quality
CalculateOcrQuality ==
    /\ scorerCall = None
    /\ \E ocr_data \in OcrDatas :
         scorerCall' = [method |-> "_calculate_ocr_quality", ocr_data |-> ocr_data,
                        value |-> calculate_ocr_quality(ocr_data)]
    /\ UNCHANGED <<templates, matchVars, pipeVars, queueVars, adapterVars, cacheVars,
                   structVars, cropCall>>

\* one call of _calculate_validation_score
CalculateValidationScore ==
    /\ scorerCall = None
    /\ \E extracted_fields \in ExtractedFields :
         scorerCall' = [method |-> "_calculate_validation_score",
                        extracted_fields |-> extracted_fields,
                        value |-> calculate_validation_score(extracted_fields)]
    /\ UNCHANGED <<templates, matchVars, pipeVars, queueVars, adapterVars, cacheVars,
                   structVars, cropCall>>

\* one call of get_confidence_level
GetConfidenceLevel ==
    /\ scorerCall = None
    /\ \E confidence \in ConfidenceSamples :
         scorerCall' = [method |-> "get_confidence_level", confidence |-> confidence,
                        value |-> get_confidence_level(confidence)]
    /\ UNCHANGED <<templates, matchVars, pipeVars, queueVars, adapterVars, cacheVars,
                   structVars, cropCall>>

ScorerInit ==
    /\ templates = <<>>
    /\ pc = "start"
    /\ args = [file_path |-> [suffix |-> ".jpg"], queue_item_id |-> QueueItemId,
                calling_app_id |-> "app_a"]
    /\ config = None
    /\ skeleton_config = None
    /\ locals = NoLocals
    /\ raisedAt = {}
    /\ extraction = None
    /\ result = None
    /\ phases = <<>>
    /\ matchCall = None
    /\ jobs = <<>>
    /\ queueCall = None
    /\ AuxIdle

ScorerNext ==
    \/ CalculateConfidence
    \/ CalculateOcrQuality
    \/ CalculateValidationScore
    \/ GetConfidenceLevel

ScorerSpec == ScorerInit /\ [][ScorerNext]_vars

Called(method) == scorerCall # None /\ scorerCall.method = method

\* C22: calculate_confidence returns a value in [0, 1], and with a template
\* without required fields the field_extraction component is exactly 1.0.
C22_ConfidenceInUnitInterval ==
    Called("calculate_confidence") =>
        /\ 0 <= scorerCall.value /\ scorerCall.value <= One
        /\ scorerCall.format_template.required_fields = <<>>
             => scorerCall.scores.field_extraction = One

\* a call with a template without required fields whose weighted sum was above
\* 1.0 and was returned as 1.0
C22_Witness ==
    /\ Called("calculate_confidence")
    /\ scorerCall.format_template.required_fields = <<>>
    /\ scorerCall.format_template.optional_fields # <<>>
    /\ TotalConfidence(scorerCall.scores) > One
    /\ scorerCall.value = One

\* C23: get_confidence_level gives 'high' exactly for scores >= 0.85, 'medium'
\* exactly for 0.70 <= score < 0.85 and 'low' exactly for scores below 0.70.
C23_ConfidenceLevelBands ==
    Called("get_confidence_level") =>
        /\ scorerCall.value = "high" <=> scorerCall.confidence >= 850000
        /\ scorerCall.value = "medium" <=> (700000 <= scorerCall.confidence
                                            /\ scorerCall.confidence < 850000)
        /\ scorerCall.value = "low" <=> scorerCall.confidence < 700000

\* 0.849999 was asked about and is medium
C23_Witness ==
    /\ Called("get_confidence_level")
    /\ scorerCall.confidence = 849999
    /\ scorerCall.value = "medium"

\* a currency value is unparsable or negative, whatever its type
UnparsableOrNegative(value) ==
    IF value.type \in {"int", "float", "Decimal"} THEN value.num < 0
    ELSE IF value.type = "str" THEN ~value.parses \/ value.num < 0
    ELSE TRUE

\* the issues as the claim counts them
ClaimedIssues(extracted_fields) ==
    LET date_issues ==
            IF /\ "receipt_date" \in DOMAIN extracted_fields
               /\ PyTruthy(extracted_fields["receipt_date"])
               /\ extracted_fields["receipt_date"].text \notin {"2025-12-23", "2025-99-99"}
            THEN 1 ELSE 0
        currency_issues ==
            Cardinality({field \in {"total_amount", "subtotal", "tax_amount"} :
                            /\ Extracted(extracted_fields, field)
                            /\ UnparsableOrNegative(extracted_fields[field])})
        items == IF /\ "line_items" \in DOMAIN extracted_fields
                    /\ extracted_fields["line_items"] # PyNone
                 THEN extracted_fields["line_items"].items ELSE <<>>
        item_issues ==
            Cardinality({i \in DOMAIN items :
                            ~(Extracted(items[i], "description")
                              /\ Extracted(items[i], "line_total"))})
    IN  date_issues + currency_issues + item_issues

\* C24: the data_validation component is max(0, 1.0 - 0.1 * issues), with one
\* issue for a receipt_date not in the date format, one for every currency
\* field that is unparsable or negative whatever its type, and one for every
\* line item without description or total.
C24_ValidationScoreCountsIssues ==
    Called("_calculate_validation_score") =>
        scorerCall.value = Max2(0, One - 100 * ClaimedIssues(scorerCall.extracted_fields))

\* text was extracted: data['text'] is there and not empty
TextExists(ocr_data) == "text" \in DOMAIN ocr_data /\ ocr_data["text"] # <<>>

\* no per-token confidences came with the OCR result
NoTokenConfidences(ocr_data) == "conf" \notin DOMAIN ocr_data \/ ocr_data["conf"] = <<>>

\* C25: the ocr_quality component lies in [0, 1] for every list of per-token
\* confidences, -1 entries included; it is 0.6 when text exists without
\* per-token confidences and 0.0 when there is neither text nor confidences.
C25_OcrQualityInUnitInterval ==
    Called("_calculate_ocr_quality") =>
        /\ 0 <= scorerCall.value /\ scorerCall.value <= One
        /\ (NoTokenConfidences(scorerCall.ocr_data) /\ TextExists(scorerCall.ocr_data))
             => scorerCall.value = 600
        /\ (NoTokenConfidences(scorerCall.ocr_data) /\ ~TextExists(scorerCall.ocr_data))
             => scorerCall.value = 0

-----------------------------------------------------------------------------
(* The payload of get_task_status, checked under AdapterSpec *)

\* C26: in the payload of get_task_status the key 'result' is there exactly
\* when status is 'completed', the key 'error' exactly when status is
\* 'failed', and task_id is the id that was asked for.
C26_ResultAndErrorKeysFollowStatus ==
    statusCall # None =>
        LET payload == statusCall.call.value
        IN  /\ "result" \in DOMAIN payload <=> payload.status = "completed"
            /\ "error" \in DOMAIN payload <=> payload.status = "failed"
            /\ payload.task_id = statusCall.task_id

-----------------------------------------------------------------------------
(* ImagePreprocessor._remove_borders: utils/image_preprocessing.py:187-247 *)

\* image.shape[:2] as (w_img, h_img): a single pixel, a small and a wide image
ImageSizes == {<<1, 1>>, <<30, 40>>, <<300, 40>>}

\* pixel positions and lengths the content bounding box is made of
PixelSamples == {0, 1, 5, 12, 30, 60, 290, 300}

\* cv2.boundingRect(all_points) of the content contours: a box inside the image
ContentBoxes(w_img, h_img) ==
    {[x |-> x, y |-> y, w |-> w, h |-> h] :
        x \in {p \in PixelSamples : p < w_img}, y \in {p \in PixelSamples : p < h_img},
        w \in {p \in PixelSamples : p >= 1}, h \in {p \in PixelSamples : p >= 1}}

\* max(10, int(side * 0.05)) (lines 234-235)
Padding(side) == Max2(10, (side * 5) \div 100)

\* a variant of the start of the crop that is not kept inside the image
CropStartUnclamped(start, pad) == start - pad

\* x = max(0, x - pad_x) (lines 238-239)
CropStart(start, pad) == Max2(0, start - pad)

\* w = min(w_img - x, w + 2 * pad_x), x being the start already moved (lines 240-241)
CropLength(side_img, start, length, pad) == Min2(side_img - start, length + 2 * pad)

\* the rectangle of image[y:y+h, x:x+w] (lines 232-244)
CropRectangle(w_img, h_img, box) ==
    LET pad_x == Padding(box.w)
        pad_y == Padding(box.h)
        x == CropStart(box.x, pad_x)
        y == CropStart(box.y, pad_y)
    IN  [x |-> x, y |-> y,
         w |-> CropLength(w_img, x, box.w, pad_x),
         h |-> CropLength(h_img, y, box.h, pad_y)]

\* _remove_borders: the image itself when border removal is off or no contour
\* is found (lines 202-203, 224-226), else the crop
remove_borders(w_img, h_img, border_removal_enabled, box) ==
    IF ~border_removal_enabled \/ box = None THEN [unchanged |-> TRUE]
    ELSE [unchanged |-> FALSE, crop |-> CropRectangle(w_img, h_img, box)]

\* one call of _remove_borders; config.preprocessing.border_removal_enabled is
\* True, or False (None when the key is missing); the method keeps no state,
\* so one call per behaviour covers every call
RemoveBorders ==
    /\ cropCall = None
    /\ \E size \in ImageSizes, border_removal_enabled \in BOOLEAN :
         \E box \in {b \in ContentBoxes(size[1], size[2]) :
                        b.x + b.w <= size[1] /\ b.y + b.h <= size[2]} \cup {None} :
            cropCall' = [w_img |-> size[1], h_img |-> size[2],
                         border_removal_enabled |-> border_removal_enabled,
                         content |-> box,
                         returned |-> remove_borders(size[1], size[2],
                                                     border_removal_enabled, box)]
    /\ UNCHANGED <<templates, matchVars, pipeVars, queueVars, adapterVars, cacheVars,
                   structVars, scorerCall>>

CropInit ==
    /\ templates = <<>>
    /\ pc = "start"
    /\ args = [file_path |-> [suffix |-> ".jpg"], queue_item_id |-> QueueItemId,
                calling_app_id |-> "app_a"]
    /\ config = None
    /\ skeleton_config = None
    /\ locals = NoLocals
    /\ raisedAt = {}
    /\ extraction = None
    /\ result = None
    /\ phases = <<>>
    /\ matchCall = None
    /\ jobs = <<>>
    /\ queueCall = None
    /\ AuxIdle

CropNext == RemoveBorders

CropSpec == CropInit /\ [][CropNext]_vars

\* C27: the crop rectangle of _remove_borders lies within the image, has
\* positive width and height and contains the whole content bounding box; with
\* border removal disabled or no content found the image comes back unchanged.
C27_CropWithinImageAroundContent ==
    cropCall # None =>
        IF ~cropCall.border_removal_enabled \/ cropCall.content = None
        THEN cropCall.returned.unchanged
        ELSE LET crop == cropCall.returned.crop
                 box == cropCall.content
             IN  /\ ~cropCall.returned.unchanged
                 /\ 0 <= crop.x /\ 0 <= crop.y
                 /\ crop.x + crop.w <= cropCall.w_img
                 /\ crop.y + crop.h <= cropCall.h_img
                 /\ crop.w > 0 /\ crop.h > 0
                 /\ crop.x <= box.x /\ box.x + box.w <= crop.x + crop.w
                 /\ crop.y <= box.y /\ box.y + box.h <= crop.y + crop.h

\* content at the left edge of a wide image, with the padding of 5% of the
\* content width, was cropped with both ends of the crop kept inside the image
C27_Witness ==
    /\ cropCall # None
    /\ cropCall.border_removal_enabled
    /\ cropCall.content # None
    /\ cropCall.content.x = 5
    /\ cropCall.content.w = 290
    /\ cropCall.returned.crop.x = 0
    /\ cropCall.returned.crop.w = 300

-----------------------------------------------------------------------------
(* The match match_template reports, checked under MatchOnceSpec *)

\* the first row, in query order, of the caller's tenant with the highest score
FirstBestOwnRow ==
    CHOOSE i \in OwnRows :
        /\ ScoreOfRow(i) = MaxOwnScore
        /\ \A j \in OwnRows : ScoreOfRow(j) = MaxOwnScore => i <= j

\* C28: match_template returns matched_template_id None exactly when
\* match_score is 0.0, so every reported match has a score above 0 and a
\* template scoring 0.0 is never reported; among the templates with the
\* highest score the first one compared is reported.
C28_MatchIffPositiveScoreFirstWins ==
    MatchReturned =>
        LET value == matchCall.call.value
        IN  /\ value.matched_template_id = NoneStr <=> value.match_score = 0
            /\ value.matched_template_id # NoneStr =>
                  /\ value.match_score > 0
                  /\ value.match_score = MaxOwnScore
                  /\ value.matched_template_id = templates[FirstBestOwnRow].template_id
                  /\ value.template_name = templates[FirstBestOwnRow].format_name

\* two templates of the tenant with different ids scored the same, above 0,
\* and the first of them was reported
C28_Witness ==
    /\ MatchReturned
    /\ \E i, j \in OwnRows :
          /\ i < j
          /\ templates[i].template_id # templates[j].template_id
          /\ ScoreOfRow(i) = ScoreOfRow(j)
          /\ ScoreOfRow(i) > 0
          /\ matchCall.call.value.matched_template_id = templates[i].template_id

-----------------------------------------------------------------------------
(* Templates written through cache_template and read by match_template:
   templates/template_sync.py, templates/template_cache.py, tasks/matching_task.py *)

\* most rows the table holds before the first cache_template
MaxSeededTemplates == 1
\* most templates the calling applications push
MaxPushes == 2

\* a row that was in cached_templates, with a fingerprint, before the first
\* cache_template of the behaviour (models.py:20-36); its primary key differs
\* from those of the rows cache_template adds
SeededRow(i, calling_app_id, template_id, fp) ==
    [id |-> 10 + i, calling_app_id |-> calling_app_id, template_id |-> template_id,
     document_type |-> "receipt", vendor |-> "Mead Clark",
     format_name |-> FormatNameOf(template_id), template_data |-> [version |-> "v0"],
     field_mappings |-> EmptyDict, structural_fingerprint |-> fp,
     last_synced_at |-> 0, created_at |-> 0, updated_at |-> 0]

SeededKeys == {<<app, tid, fp>> : app \in Tenants, tid \in TemplateIds,
                                  fp \in {FpInvoice, FpReceipt}}

\* the tables with at most n such rows, no two for one template of one tenant
SeededTables(n) ==
    {[i \in DOMAIN keys |-> SeededRow(i, keys[i][1], keys[i][2], keys[i][3])] :
        keys \in {ks \in SeqsUpTo(SeededKeys, n) :
                     \A i, j \in DOMAIN ks :
                         i # j => <<ks[i][1], ks[i][2]>> # <<ks[j][1], ks[j][2]>>}}

\* what a calling application pushes for a template: any keys it likes, a
\* fingerprint of its own among them
PushedTemplates ==
    { [document_type |-> "receipt", vendor |-> "Acme", format_name |-> "letter",
       template_data |-> [version |-> "v2"], field_mappings |-> [total |-> "box_1"]],
      [document_type |-> "receipt", format_name |-> "thermal_3x12",
       structural_fingerprint |-> FpInvoice] }

\* the arguments push_template_update passes to cache_template
\* (template_sync.py:133-141)
PushedPayload(template_data) ==
    [document_type |-> Get(template_data, "document_type", NoneStr),
     vendor |-> Get(template_data, "vendor", NoneStr),
     format_name |-> Get(template_data, "format_name", NoneStr),
     template_data |-> Get(template_data, "template_data", EmptyDict),
     field_mappings |-> Get(template_data, "field_mappings", EmptyDict)]

\* TemplateSync.push_template_update (template_sync.py:114-159): the template
\* goes through cache_template; the sync status written by
\* _update_sync_metadata is 'synced', or 'error' when cache_template raised,
\* and the call returns True or False
PushTemplateUpdate ==
    /\ clock < MaxPushes
    /\ \E calling_app_id \in Tenants, template_id \in TemplateIds,
          template_data \in PushedTemplates, commit_ok \in BOOLEAN :
         LET payload == PushedPayload(template_data)
             existing_id == FirstRowId(templates, calling_app_id, template_id)
             now == clock + 1
             written == WriteTemplate(templates, existing_id, calling_app_id, template_id,
                                      payload, now)
         IN  /\ clock' = now
             /\ templates' = IF commit_ok THEN written ELSE templates
             /\ cacheCall' =
                  [op |-> "push_template_update", calling_app_id |-> calling_app_id,
                   template_id |-> template_id, payload |-> payload,
                   sync_status |-> IF commit_ok THEN "synced" ELSE "error",
                   call |-> Return(commit_ok)]
    /\ UNCHANGED <<matchVars, pipeVars, queueVars, structVars, utilVars, adapterVars, sessions>>

SyncInit ==
    /\ templates \in SeededTables(MaxSeededTemplates)
    /\ pc = "start"
    /\ args = [file_path |-> [suffix |-> ".jpg"], queue_item_id |-> QueueItemId,
                calling_app_id |-> "app_a"]
    /\ config = None
    /\ skeleton_config = None
    /\ locals = NoLocals
    /\ raisedAt = {}
    /\ extraction = None
    /\ result = None
    /\ phases = <<>>
    /\ matchCall = None
    /\ jobs = <<>>
    /\ queueCall = None
    /\ AuxIdle

SyncNext ==
    \/ PushTemplateUpdate
    \/ MatchOnce

SyncSpec == SyncInit /\ [][SyncNext]_vars

\* the row was added by cache_template, and so was only written through it
AddedByCacheTemplate(row) == row.created_at > 0

\* the step is a cache_template, called by the push
WritesThroughCacheTemplate == clock' # clock

\* the step is a match_template that returned a match
ReportsAMatch ==
    /\ matchCall' # matchCall
    /\ matchCall'.call.kind = "return"
    /\ matchCall'.call.value.matched_template_id # NoneStr

\* C29: cache_template never writes structural_fingerprint: an update leaves
\* the stored fingerprint of every row as it was, also when template_data
\* changes, and a new row has none; so a row that cache_template added for a
\* sync has no fingerprint, and match_template never reports a template of
\* such a row.
C29_CacheTemplateNeverWritesFingerprint ==
    [][ /\ WritesThroughCacheTemplate =>
              /\ \A i \in DOMAIN templates :
                    templates'[i].structural_fingerprint = templates[i].structural_fingerprint
              /\ \A i \in DOMAIN templates' \ DOMAIN templates :
                    templates'[i].structural_fingerprint = None
        /\ \A i \in DOMAIN templates' :
              AddedByCacheTemplate(templates'[i]) => templates'[i].structural_fingerprint = None
        /\ ReportsAMatch =>
              /\ \E i \in DOMAIN templates :
                    /\ templates[i].calling_app_id = matchCall'.calling_app_id
                    /\ templates[i].template_id = matchCall'.call.value.matched_template_id
                    /\ ~AddedByCacheTemplate(templates[i])
              /\ \A i \in DOMAIN templates :
                    AddedByCacheTemplate(templates[i]) =>
                        ~ /\ templates[i].calling_app_id = matchCall'.calling_app_id
                          /\ templates[i].template_id =
                                 matchCall'.call.value.matched_template_id ]_vars

\* a seeded template was updated with other template_data and kept its
\* fingerprint, cache_template added another template of the same tenant, and
\* match_template reported the seeded one
C29_Witness ==
    /\ MatchReturned
    /\ \E i, j \in DOMAIN templates :
          /\ ~AddedByCacheTemplate(templates[i])
          /\ templates[i].updated_at > 0
          /\ templates[i].template_data # [version |-> "v0"]
          /\ templates[i].structural_fingerprint # None
          /\ AddedByCacheTemplate(templates[j])
          /\ templates[j].calling_app_id = templates[i].calling_app_id
          /\ templates[j].calling_app_id = matchCall.calling_app_id
          /\ matchCall.call.value.matched_template_id = templates[i].template_id

-----------------------------------------------------------------------------
(* process_document_task while the template cache of its tenant is written:
   tasks/document_tasks.py, templates/template_cache.py *)

\* the task has started and has not returned
TaskRunning == pc \notin {"start", "done", "raised"}

\* clear_cache_for_app for the tenant of the running task, called by another
\* worker once in a behaviour (template_cache.py:197-206)
ConcurrentClearCache ==
    /\ TaskRunning
    /\ cacheCall = None
    /\ ClearCacheForApp
    /\ cacheCall'.calling_app_id = args.calling_app_id

\* cache_template for the tenant of the running task, called by another worker
\* once in a behaviour (template_cache.py:92-154)
ConcurrentCacheTemplate ==
    /\ TaskRunning
    /\ cacheCall = None
    /\ CacheTemplate
    /\ cacheCall'.calling_app_id = args.calling_app_id

PipelineRaceInit ==
    /\ templates \in SeededTables(MaxSeededTemplates)
    /\ pc = "start"
    /\ args = [file_path |-> [suffix |-> ".jpg"], queue_item_id |-> QueueItemId,
                calling_app_id |-> "app_a"]
    /\ config = None
    /\ skeleton_config = None
    /\ locals = NoLocals
    /\ raisedAt = {}
    /\ extraction = None
    /\ result = None
    /\ phases = <<>>
    /\ matchCall = None
    /\ jobs = <<>>
    /\ queueCall = None
    /\ AuxIdle

PipelineRaceNext ==
    \/ GetConfig
    \/ SaveOriginal
    \/ Preprocess
    \/ MatchStep
    \/ LoadBestMatch
    \/ Decide
    \/ ConcurrentClearCache
    \/ ConcurrentCacheTemplate

PipelineRaceSpec == PipelineRaceInit /\ [][PipelineRaceNext]_vars

\* the run returned a result whose confidence is the score match_template gave
\* for a template it matched
ReportsRealMatchScore ==
    /\ Returned
    /\ result.status # "failed"
    /\ "matching" \notin raisedAt
    /\ locals.match_result # None
    /\ locals.match_result.matched_template_id # NoneStr
    /\ result.confidence = locals.match_result.match_score

\* C30 (as stated): under every interleaving of process_document_task with a
\* concurrent clear_cache_for_app or cache_template on the same tenant, a result
\* that reports the score of a fingerprint match reports as template_matched
\* the template that scored it: the template the run loaded is a row of the
\* table, not the mock placeholder, and while the row exists it is the row of
\* the matched template id of the tenant.
\* Violated: the matched row is read again in a second session after
\* match_template returned; a clear_cache_for_app committed in between leaves
\* no row, best_match becomes the mock template and best_score stays the score
\* of the deleted template.
C30_ScoreAndNameFromSameTemplate ==
    ReportsRealMatchScore =>
        /\ locals.best_match # MockTemplate
        /\ result.template_matched = locals.best_match.format_name
        /\ \A i \in DOMAIN templates :
              templates[i].id = locals.best_match.id =>
                  /\ templates[i].template_id = locals.match_result.matched_template_id
                  /\ templates[i].calling_app_id = args.calling_app_id

====
